---- MODULE Spec2Model ----
(***************************************************************************)
(* A model of the human-consensus simulation: Node (src/node/*.py), Block, *)
(* Candidate, CandidateManager, Message, Transport and the driver loop.    *)
(*                                                                         *)
(* One call of Node.run is one atomic step (the driver is single-threaded  *)
(* and every delivery is processed to completion).  A run is computed by   *)
(* pure operators over a record that holds the node's fields plus the      *)
(* messages it handed to Transport.send, in call order.                    *)
(*                                                                         *)
(* Abstractions, each one stated where it is made:                         *)
(*  - an evidence map (messages_approve, messages_vote, messages_chain) is *)
(*    its key set: the code reads only len() and membership of these maps  *)
(*    when the approves in them reference the block of their Candidate;    *)
(*  - Message.blocks[0] is Message.block, and Message(blocks=[block]) is   *)
(*    Message(block=block): Node.receive and NodeCommit.gen_commit still   *)
(*    use the attribute that message.py:89-98 renamed.  Executed against   *)
(*    this Message class both raise (KeyError, TypeError) on first use;    *)
(*    the model follows the rename, the protocol the two methods encode;   *)
(*  - the driver's cap on loop iterations (MAX_LOOP_ITERATIONS) is left    *)
(*    out: it is seven orders of magnitude above the runs explored here;   *)
(*  - wall-clock time is a clock of whole seconds that moves between loop  *)
(*    iterations of the driver; the code reads it only to compare the age  *)
(*    of a time stamp with a timeout, so the model keeps time.time() at    *)
(*    MaxTime and moves the time stamps into the past instead;             *)
(*  - messages_buffer is always empty: delay_message is called only on     *)
(*    NodeNotEnoughData, which validate_message never raises.              *)
(***************************************************************************)
EXTENDS Integers, Sequences, FiniteSets, TLC

\* ------------------------------------------------------------------ bounds
\* The node ids a run can use: the shared directory holds the ids 0 .. N-1
\* of the nodes constructed (node_base.py:83-84).
Nodes == 0 .. 2

\* Driver target: the loop ends when a majority holds this many blocks.
GenerateBlocks == 2

\* The defaults of blank_block_timeout and chain_update_timeout, in seconds.
BlankBlockTimeout == 2

ChainUpdateTimeout == 5

\* The clock counts whole seconds.  Time stamps are kept on a scale where the
\* present is MaxTime and a moment MaxTime or more seconds ago is 0.
MaxTime == ChainUpdateTimeout

\* blank_block_timeout = infinity: a value the clock never reaches.
Infinity == MaxTime + ChainUpdateTimeout + 1

\* At most this many events of the environment in one behaviour, of each
\* kind and in all: a send that is dropped, the envelopes of a pair of nodes
\* not yet due when the driver polls the transport, the driver held up for
\* one or more seconds.
MaxEvents == 2

\* The events of the behaviours in which node 1 is starved of the approvals.
StarvedLate == 3

StarvedPauses == 1

StarvedEvents == StarvedLate + StarvedPauses

\* events_left of a behaviour without a limit.
Unlimited == MaxEvents + StarvedEvents + 1

\* The length of the chains the other nodes hold when a late joiner starts.
LateBlocks == 3

\* The slots a run can reach: one past the longest chain.
Slots == 0 .. (IF LateBlocks >= GenerateBlocks THEN LateBlocks + 1 ELSE GenerateBlocks)

\* ------------------------------------------------------------------ state
VARIABLES
    chain,                  \* chain[n]: the committed blocks of node n
    candidates,             \* candidates[n][slot]: the CandidateManager (a set of Candidates)
    active_candidate,       \* active_candidate[n]: the block of the active Candidate, or NoBlock
    time_forged,            \* time_forged[n]
    time_update_requested,  \* time_update_requested[n]
    blank_block_timeout,    \* the nodes' blank_block_timeout setting
    drop_rate,              \* the transport's drop rate (0: nothing is dropped)
    delay_multiplier,       \* the transport's delay multiplier (0: every envelope is due at once)
    frozen,                 \* nodes the driver never runs (scenario "proposer offline")
    lossy,                  \* <<receiver, message type>>: the sends the transport may drop
    slow,                   \* <<sender, receiver>>: the pairs whose envelopes may be late
    nodes,                  \* the shared directory self.nodes: the ids of the nodes constructed
    generate_blocks,        \* the driver's target chain length
    probe,                  \* history: the last measurement taken (<<>>: none)
    pool,                   \* Transport.pool: envelopes in flight, in delivery order
    due,                    \* messages_to_deliver of the current loop iteration
    nodes_to_run,           \* nodes the current tick has not run yet
    events_left,            \* events of the environment still allowed, by kind and in total
    crashed,                \* an unhandled exception ended the driver loop
    emitted,                \* history: <<node, type, block_id, node_id>> broadcast at least once,
                            \*          and every chain update request sent
    duplicated              \* history: ... broadcast more than once

vars == <<chain, candidates, active_candidate, time_forged, time_update_requested,
          blank_block_timeout, drop_rate, delay_multiplier, frozen, lossy, slow, nodes,
          generate_blocks, probe, pool, due, nodes_to_run, events_left, crashed, emitted,
          duplicated>>

\* Faulty variant: the length of the directory read when only the first
\* node has registered.
N_first_registered == Cardinality(Nodes) - 2

\* len(self.nodes)
N == Cardinality(nodes)

\* time.time()
now == MaxTime

\* ------------------------------------------------------------------ Block
\* node_id of a blank block (None in the source).
Blank == -1

Block(block_id, node_id, created) ==
    [block_id |-> block_id, node_id |-> node_id, created |-> created]

\* "No block": None where the source holds an optional Block.
NoBlock == [block_id |-> -1, node_id |-> -1, created |-> 0]

\* Block.__eq__: body and creation time are not compared.
BlockEq(a, b) == a.block_id = b.block_id /\ a.node_id = b.node_id

\* ------------------------------------------------------------------ Message
TYPE_COMMIT == "commit"
TYPE_APPROVE == "approve"
TYPE_VOTE == "vote"
TYPE_APPROVE_STATUS_UPDATE == "approve_status_update"
TYPE_VOTE_STATUS_UPDATE == "vote_status_update"
TYPE_CHAIN_UPDATE_REQUEST == "chain_update_request"
TYPE_CHAIN_UPDATE == "chain_update"

\* The history's mark for a blank block created by try_approving_blank_block.
BLANK_BLOCK == "blank_block"

\* Message.candidates = None.
NoCandidates == [slot |-> -1, manager |-> {}]

\* messages_chain is the set of the senders of the approves or votes given as
\* evidence; messages_chain_block is the block those messages name (block_id,
\* node_id), which is the block of the message for every message a node builds.
Message(node_id, message_type, block, chain_out, messages_chain, cands) ==
    [node_id |-> node_id, message_type |-> message_type, block |-> block,
     chain |-> chain_out, messages_chain |-> messages_chain,
     messages_chain_block |-> [block_id |-> block.block_id, node_id |-> block.node_id],
     candidates |-> cands]

\* ------------------------------------------------------------------ Candidate
ACTION_APPROVE == "approve"
ACTION_APPROVE_STATUS_UPDATE == "approve_status_update"
ACTION_VOTE == "vote"
ACTION_VOTE_STATUS_UPDATE == "vote_status_update"

POSSIBLE_ACTIONS ==
    {ACTION_APPROVE, ACTION_APPROVE_STATUS_UPDATE, ACTION_VOTE, ACTION_VOTE_STATUS_UPDATE}

Candidate(block) ==
    [block |-> block, messages_approve |-> {}, approve_status_updates |-> {},
     messages_vote |-> {}, vote_status_updates |-> {}, actions_taken |-> {},
     forged |-> FALSE]

\* Candidate.take_action
take_action(c, action) == [c EXCEPT !.actions_taken = @ \cup {action}]

\* Candidate.__eq__
CandidateEq(a, b) ==
    /\ BlockEq(a.block, b.block)
    /\ a.messages_approve = b.messages_approve
    /\ a.messages_vote = b.messages_vote
    /\ a.approve_status_updates = b.approve_status_updates
    /\ a.vote_status_updates = b.vote_status_updates
    /\ a.actions_taken = b.actions_taken
    /\ a.forged = b.forged

\* Candidate.__gt__ for two Candidates of the same block (otherwise it raises).
CandidateGt(a, b) ==
    IF a.forged /\ ~b.forged THEN TRUE
    ELSE IF b.forged /\ ~a.forged THEN FALSE
    ELSE IF Cardinality(a.vote_status_updates) # Cardinality(b.vote_status_updates)
        THEN Cardinality(a.vote_status_updates) > Cardinality(b.vote_status_updates)
    ELSE IF Cardinality(a.messages_vote) # Cardinality(b.messages_vote)
        THEN Cardinality(a.messages_vote) > Cardinality(b.messages_vote)
    ELSE IF Cardinality(a.approve_status_updates) # Cardinality(b.approve_status_updates)
        THEN Cardinality(a.approve_status_updates) > Cardinality(b.approve_status_updates)
    ELSE IF Cardinality(a.messages_approve) # Cardinality(b.messages_approve)
        THEN Cardinality(a.messages_approve) > Cardinality(b.messages_approve)
    ELSE FALSE

\* Candidate.__lt__: not self == other and not self > other.
CandidateLt(a, b) == ~CandidateEq(a, b) /\ ~CandidateGt(a, b)

\* ------------------------------------------------------------------ CandidateManager
\* A manager never holds two Candidates of equal blocks (find() guards every
\* insertion), and apart from sorted() nothing reads the list order, so it is a set.

\* CandidateManager.check_action
check_action(manager, action) == \E c \in manager : action \in c.actions_taken

\* CandidateManager.find(block) is not None
found(manager, block) == \E c \in manager : BlockEq(c.block, block)

\* self[CandidateManager.find(block)]
find(manager, block) == CHOOSE c \in manager : BlockEq(c.block, block)

\* CandidateManager.best_candidate raises ValueError: on an empty list, and
\* when sorted() compares two Candidates of different blocks (Candidate.__lt__
\* calls __gt__, which raises for a different kind of block).
best_candidate_raises(manager) == Cardinality(manager) # 1

\* CandidateManager.best_candidate: sorted(self, reverse=True)[0]
best_candidate(manager) == CHOOSE c \in manager : \A d \in manager : ~CandidateGt(d, c)

\* ------------------------------------------------------------------ Node: fields and helpers
\* keep_excessive_messages, the constructor's default (node_base.py:57).
keep_excessive_messages == FALSE

\* The fields of node n, plus what this run hands to the transport:
\*   out    the Transport.send calls of the run, in order: [to, message]
\*   sent   the broadcasts of the run and the blank blocks it created, in order:
\*          <<type, block_id, node_id>>
\*   error  an exception left Node.run
NodeState(n) ==
    [node_id |-> n, chain |-> chain[n], candidates |-> candidates[n],
     active_candidate |-> active_candidate[n], time_forged |-> time_forged[n],
     time_update_requested |-> time_update_requested[n],
     out |-> <<>>, sent |-> <<>>, error |-> FALSE]

\* The Candidate object self.active_candidate points to.
ActiveCandidate(s) ==
    find(s.candidates[s.active_candidate.block_id], s.active_candidate)

\* Write through the self.active_candidate pointer.
SetActiveCandidate(s, c) ==
    [s EXCEPT !.candidates[c.block.block_id] =
                  {x \in @ : ~BlockEq(x.block, c.block)} \cup {c}]

\* NodeMessage.send_message
send_message(s, message, to) ==
    [s EXCEPT !.out = Append(@, [to |-> to, message |-> message])]

\* The node ids other than n, ascending: the order of the broadcast loop.
Others(n) == [i \in 1 .. N - 1 |-> IF i - 1 < n THEN i - 1 ELSE i]

RECURSIVE send_all(_, _, _)
send_all(s, message, tos) ==
    IF tos = <<>> THEN s
    ELSE send_all(send_message(s, message, Head(tos)), message, Tail(tos))

\* NodeMessage.broadcast
broadcast(s, message) ==
    send_all([s EXCEPT !.sent = Append(@, <<message.message_type,
                                            message.block.block_id,
                                            message.block.node_id>>)],
             message, Others(s.node_id))

\* NodeBlock.get_next_block_id
get_next_block_id(s) == Len(s.chain)

\* Faulty variant: the proposer is taken one slot ahead.
get_next_block_node_id_ahead(s) == (get_next_block_id(s) + 1) % N

\* NodeBlock.get_next_block_node_id
get_next_block_node_id(s) == get_next_block_id(s) % N

\* Faulty variant: every block is taken for real.
validate_block_any(block) == TRUE

\* NodeValidator.validate_block
validate_block(block) ==
    block.node_id = Blank \/ (block.block_id % N = block.node_id /\ block.block_id >= 0)

\* NodeValidator.validate_message, for a message that is not a chain update.
validate_message(message) ==
    /\ \A i \in 1 .. Len(message.chain) : validate_block(message.chain[i])
    /\ message.block # NoBlock
    /\ validate_block(message.block)

\* NodeBlock.set_active_candidate(block), for a block that is in the next
\* slot's manager (the only way the source calls it).
set_active_candidate_block(s, block) ==
    [s EXCEPT !.active_candidate = find(s.candidates[block.block_id], block).block]

\* Faulty variant: the new Candidate takes the place of the manager's Candidates.
add_candidate_replacing(s, candidate) ==
    set_active_candidate_block(
        [s EXCEPT !.candidates[candidate.block.block_id] = {candidate}],
        candidate.block)

\* NodeBlock.add_candidate
add_candidate(s, candidate) ==
    IF found(s.candidates[candidate.block.block_id], candidate.block)
    THEN set_active_candidate_block(s, candidate.block)
    ELSE set_active_candidate_block(
             [s EXCEPT !.candidates[candidate.block.block_id] = @ \cup {candidate}],
             candidate.block)

\* NodeBase.last_activity_time.  time_approved is written by the constructor
\* only, together with time_forged, so it is never the latest alone.
last_activity_time(s) ==
    LET times == {s.time_forged, s.time_update_requested}
                 \cup (IF s.active_candidate # NoBlock
                       THEN {s.active_candidate.created} ELSE {})
    IN CHOOSE t \in times : \A u \in times : u <= t

\* ------------------------------------------------------------------ Node: quorum predicates
\* Faulty variant of the quorum test: one entry is enough.
MoreThanHalfOfNone(count) == count > 0

\* len(x) > len(self.nodes) / 2.0
MoreThanHalf(count) == 2 * count > N

\* Faulty variant: any evidence map counts as a quorum of approves.
enough_approves_in_any(message_chain) == TRUE

\* NodeApprove.enough_approves(message_chain)
enough_approves_in(message_chain) == MoreThanHalf(Cardinality(message_chain))

\* NodeApprove.enough_approves()
enough_approves(s) == MoreThanHalf(Cardinality(ActiveCandidate(s).messages_approve))

\* Node.enough_approves(message_chain) of the single-file node (src/node.py):
\* len(message_chain) > (len(self.nodes) - 1) / 2.0
Node_enough_approves_in(message_chain) == 2 * Cardinality(message_chain) > N - 1

\* Node.enough_approves() of the single-file node (src/node.py)
Node_enough_approves(s) == 2 * Cardinality(ActiveCandidate(s).messages_approve) > N - 1

\* NodeApprove.enough_approve_status_updates
enough_approve_status_updates(s) ==
    MoreThanHalf(Cardinality(ActiveCandidate(s).approve_status_updates))

\* NodeVote.enough_votes()
enough_votes(s) == MoreThanHalf(Cardinality(ActiveCandidate(s).messages_vote))

\* Faulty variant: any number of vote status updates is enough.
enough_vote_status_updates_always(s) == TRUE

\* NodeVote.enough_vote_status_updates
enough_vote_status_updates(s) ==
    MoreThanHalf(Cardinality(ActiveCandidate(s).vote_status_updates))

\* ------------------------------------------------------------------ Node: emissions
\* NodeApprove.send_approve_once
send_approve_once(s) ==
    IF check_action(s.candidates[s.active_candidate.block_id], ACTION_APPROVE) THEN s
    ELSE LET c == ActiveCandidate(s)
             c2 == [take_action(c, ACTION_APPROVE)
                        EXCEPT !.messages_approve = @ \cup {s.node_id}]
         IN broadcast(SetActiveCandidate(s, c2),
                      Message(s.node_id, TYPE_APPROVE, c.block, <<>>, {}, NoCandidates))

\* Faulty variant: the approve status update is sent without a quorum of approves.
send_approve_status_update_ungated(s) ==
    IF check_action(s.candidates[s.active_candidate.block_id], ACTION_APPROVE_STATUS_UPDATE)
    THEN s
    ELSE LET c == ActiveCandidate(s)
             c2 == [take_action(c, ACTION_APPROVE_STATUS_UPDATE)
                        EXCEPT !.approve_status_updates = @ \cup {s.node_id}]
         IN broadcast(SetActiveCandidate(s, c2),
                      Message(s.node_id, TYPE_APPROVE_STATUS_UPDATE, c.block, <<>>,
                              c.messages_approve, NoCandidates))

\* NodeApprove.send_approve_status_update_once
send_approve_status_update_once(s) ==
    IF check_action(s.candidates[s.active_candidate.block_id], ACTION_APPROVE_STATUS_UPDATE)
    THEN s
    ELSE IF ~enough_approves(s) THEN s
    ELSE LET c == ActiveCandidate(s)
             c2 == [take_action(c, ACTION_APPROVE_STATUS_UPDATE)
                        EXCEPT !.approve_status_updates = @ \cup {s.node_id}]
         IN broadcast(SetActiveCandidate(s, c2),
                      Message(s.node_id, TYPE_APPROVE_STATUS_UPDATE, c.block, <<>>,
                              c.messages_approve, NoCandidates))

\* Faulty variant: the VOTE is never sent.
send_vote_never(s) == s

\* NodeVote.send_vote_once
send_vote_once(s) ==
    IF check_action(s.candidates[s.active_candidate.block_id], ACTION_VOTE) THEN s
    ELSE IF ~enough_approve_status_updates(s) THEN s
    ELSE LET c == ActiveCandidate(s)
             c2 == [take_action(c, ACTION_VOTE)
                        EXCEPT !.messages_vote = @ \cup {s.node_id}]
         IN broadcast(SetActiveCandidate(s, c2),
                      Message(s.node_id, TYPE_VOTE, c.block, <<>>,
                              c.messages_approve, NoCandidates))

\* NodeVote.send_vote_status_update_once
send_vote_status_update_once(s) ==
    IF check_action(s.candidates[s.active_candidate.block_id], ACTION_VOTE_STATUS_UPDATE)
    THEN s
    ELSE IF ~enough_votes(s) THEN s
    ELSE LET c == ActiveCandidate(s)
             c2 == [take_action(c, ACTION_VOTE_STATUS_UPDATE)
                        EXCEPT !.vote_status_updates = @ \cup {s.node_id}]
         IN broadcast(SetActiveCandidate(s, c2),
                      Message(s.node_id, TYPE_VOTE_STATUS_UPDATE, c.block, <<>>,
                              c.messages_vote, NoCandidates))

\* Faulty variant: the active Candidate is forged without the two quorums.
try_forging_without_quorum(s) ==
    IF s.active_candidate = NoBlock THEN s
    ELSE LET c == ActiveCandidate(s)
             s2 == SetActiveCandidate(s, [c EXCEPT !.forged = TRUE])
         IN [s2 EXCEPT !.chain = Append(@, c.block),
                       !.active_candidate = NoBlock,
                       !.time_forged = now]

\* NodeForge.try_forging_candidate_block
try_forging_candidate_block(s) ==
    IF s.active_candidate = NoBlock THEN s
    ELSE IF ~enough_vote_status_updates(s) THEN s
    ELSE IF ~enough_votes(s) THEN s
    ELSE LET c == ActiveCandidate(s)
             s2 == SetActiveCandidate(s, [c EXCEPT !.forged = TRUE])
         IN [s2 EXCEPT !.chain = Append(@, c.block),
                       !.active_candidate = NoBlock,
                       !.time_forged = now]

\* ------------------------------------------------------------------ Node: chain update
\* self.candidates[next_block_id] if next_block_id in self.candidates else None
candidates_out(s) ==
    IF s.candidates[get_next_block_id(s)] # {}
    THEN [slot |-> get_next_block_id(s), manager |-> s.candidates[get_next_block_id(s)]]
    ELSE NoCandidates

\* NodeChainUpdate.send_chain_update.  A starting_block_id other than 0 is
\* truthy and selects the whole chain; 0 selects the whole chain too when it
\* is longer than one block, and nothing otherwise.
send_chain_update(s, node_id, starting_block_id) ==
    LET chain_out == IF starting_block_id # 0 THEN s.chain
                     ELSE IF starting_block_id < Len(s.chain) - 1
                          THEN SubSeq(s.chain, starting_block_id + 1, Len(s.chain))
                          ELSE <<>>
    IN send_message(s, Message(s.node_id, TYPE_CHAIN_UPDATE, NoBlock, chain_out, {},
                               candidates_out(s)),
                    node_id)

\* Faulty variant: the answer starts at the requester's tip instead of above it.
receive_chain_update_request_from_tip(s, message_in) ==
    LET chain_out == IF message_in.block = NoBlock THEN s.chain
                     ELSE IF message_in.block.block_id < Len(s.chain)
                          THEN SubSeq(s.chain, message_in.block.block_id + 1, Len(s.chain))
                          ELSE <<>>
    IN send_message(s, Message(s.node_id, TYPE_CHAIN_UPDATE, NoBlock, chain_out, {},
                               candidates_out(s)),
                    message_in.node_id)

\* NodeChainUpdate.receive_chain_update_request
receive_chain_update_request(s, message_in) ==
    LET chain_out == IF message_in.block = NoBlock THEN s.chain
                     ELSE IF message_in.block.block_id < Len(s.chain) - 1
                          THEN SubSeq(s.chain, message_in.block.block_id + 2, Len(s.chain))
                          ELSE <<>>
    IN send_message(s, Message(s.node_id, TYPE_CHAIN_UPDATE, NoBlock, chain_out, {},
                               candidates_out(s)),
                    message_in.node_id)

\* NodeChainUpdate.request_chain_update: node_ids is a sequence, empty for a broadcast.
request_chain_update(s, node_ids) ==
    LET last_block == IF s.chain = <<>> THEN NoBlock ELSE s.chain[Len(s.chain)]
        message == Message(s.node_id, TYPE_CHAIN_UPDATE_REQUEST, last_block, <<>>, {},
                           NoCandidates)
        s2 == IF node_ids = <<>> THEN broadcast(s, message)
              ELSE send_all(s, message, node_ids)
    IN [s2 EXCEPT !.time_update_requested = now]

\* Faulty variant: every valid received block is appended, in block_id
\* order, whether or not the chain holds its slot already.
RECURSIVE insert_blocks_appending(_, _)
insert_blocks_appending(chain_in, block_index) ==
    IF block_index = {} THEN chain_in
    ELSE LET b == CHOOSE x \in block_index : \A y \in block_index : x.block_id <= y.block_id
         IN IF validate_block(b)
            THEN insert_blocks_appending(Append(chain_in, b), block_index \ {b})
            ELSE chain_in

\* Faulty variant: the block with the next block id is inserted unvalidated.
RECURSIVE insert_blocks_unvalidated(_, _)
insert_blocks_unvalidated(chain_in, block_index) ==
    IF \E b \in block_index : b.block_id = Len(chain_in)
    THEN LET b == CHOOSE x \in block_index : x.block_id = Len(chain_in)
         IN insert_blocks_unvalidated(Append(chain_in, b), block_index \ {b})
    ELSE chain_in

\* The loop of receive_chain_update over the received blocks: the block with
\* the next block id is inserted when valid; either way it leaves the index,
\* so an invalid block ends the loop.
RECURSIVE insert_blocks(_, _)
insert_blocks(chain_in, block_index) ==
    IF \E b \in block_index : b.block_id = Len(chain_in)
    THEN LET b == CHOOSE x \in block_index : x.block_id = Len(chain_in)
         IN IF validate_block(b)
            THEN insert_blocks(Append(chain_in, b), block_index \ {b})
            ELSE chain_in
    ELSE chain_in

\* Faulty variant: the received Candidate is appended without looking for its block.
merge_candidate_appending(manager, candidate) == manager \cup {candidate}

\* The merge of one received Candidate into the manager of the next slot.
merge_candidate(manager, candidate) ==
    IF found(manager, candidate.block)
    THEN IF CandidateLt(find(manager, candidate.block), candidate)
         THEN (manager \ {find(manager, candidate.block)}) \cup {candidate}
         ELSE manager
    ELSE manager \cup {candidate}

RECURSIVE merge_candidates(_, _)
merge_candidates(manager, received) ==
    IF received = {} THEN manager
    ELSE LET c == CHOOSE x \in received : TRUE
         IN merge_candidates(merge_candidate(manager, c), received \ {c})


\* NodeChainUpdate.receive_chain_update
receive_chain_update(s, message_in) ==
    LET block_index == {message_in.chain[i] : i \in 1 .. Len(message_in.chain)}
        s2 == [s EXCEPT !.chain = insert_blocks(@, block_index)]
        candidate_id == get_next_block_id(s2)
    IN IF message_in.candidates = NoCandidates THEN s2
       ELSE IF candidate_id # message_in.candidates.slot THEN s2
       ELSE [s2 EXCEPT !.candidates[candidate_id] =
                           merge_candidates(@, message_in.candidates.manager)]

\* ------------------------------------------------------------------ Node: receive handlers
\* Faulty variant: the approve of a blank block is not saved.
receive_approve_of_proposed(s, message_in) ==
    IF message_in.block.node_id = Blank THEN s
    ELSE IF ~keep_excessive_messages
            /\ check_action(s.candidates[s.active_candidate.block_id],
                            ACTION_APPROVE_STATUS_UPDATE)
    THEN s
    ELSE IF message_in.node_id \in ActiveCandidate(s).messages_approve THEN s
    ELSE SetActiveCandidate(s, [ActiveCandidate(s) EXCEPT
                                   !.messages_approve = @ \cup {message_in.node_id}])

\* NodeApprove.receive_approve
receive_approve(s, message_in) ==
    IF ~keep_excessive_messages
       /\ check_action(s.candidates[s.active_candidate.block_id], ACTION_APPROVE_STATUS_UPDATE)
    THEN s
    ELSE IF message_in.node_id \in ActiveCandidate(s).messages_approve THEN s
    ELSE SetActiveCandidate(s, [ActiveCandidate(s) EXCEPT
                                   !.messages_approve = @ \cup {message_in.node_id}])

\* NodeApprove.receive_approve_status_update
receive_approve_status_update(s, message_in) ==
    IF \E k \in message_in.messages_chain : ~validate_block(message_in.messages_chain_block)
    THEN s
    ELSE IF ~enough_approves_in(message_in.messages_chain) THEN s
    ELSE IF s.active_candidate # NoBlock /\ ~BlockEq(s.active_candidate, message_in.block)
    THEN s
    ELSE LET c == ActiveCandidate(s)
             c2 == IF ACTION_VOTE \notin c.actions_taken \/ keep_excessive_messages
                   THEN [c EXCEPT !.messages_approve = @ \cup message_in.messages_chain]
                   ELSE c
         IN SetActiveCandidate(s, [c2 EXCEPT
                                      !.approve_status_updates = @ \cup {message_in.node_id}])

\* NodeVote.receive_vote
receive_vote(s, message_in) ==
    IF message_in.node_id \in ActiveCandidate(s).messages_vote THEN s
    ELSE SetActiveCandidate(s, [ActiveCandidate(s) EXCEPT
                                   !.messages_vote = @ \cup {message_in.node_id}])

\* NodeVote.receive_vote_status_update
receive_vote_status_update(s, message_in) ==
    SetActiveCandidate(s, [ActiveCandidate(s) EXCEPT
                              !.messages_vote = @ \cup message_in.messages_chain,
                              !.vote_status_updates = @ \cup {message_in.node_id}])

\* The dispatch at the end of Node.receive.
dispatch(s, message_in) ==
    CASE message_in.message_type = TYPE_COMMIT -> s
      [] message_in.message_type = TYPE_APPROVE -> receive_approve(s, message_in)
      [] message_in.message_type = TYPE_APPROVE_STATUS_UPDATE ->
            receive_approve_status_update(s, message_in)
      [] message_in.message_type = TYPE_VOTE -> receive_vote(s, message_in)
      [] message_in.message_type = TYPE_VOTE_STATUS_UPDATE ->
            receive_vote_status_update(s, message_in)

\* message_in.blocks[0] in self.chain
in_chain(s, block) == \E i \in 1 .. Len(s.chain) : BlockEq(s.chain[i], block)

\* Faulty variant: a block from the future is taken for a Candidate.
receive_taking_future(s, message_in) ==
    IF message_in.message_type = TYPE_CHAIN_UPDATE_REQUEST
    THEN receive_chain_update_request(s, message_in)
    ELSE IF message_in.message_type = TYPE_CHAIN_UPDATE
    THEN receive_chain_update(s, message_in)
    ELSE IF ~validate_message(message_in) THEN s
    ELSE IF in_chain(s, message_in.block) THEN s
    ELSE IF found(s.candidates[message_in.block.block_id], message_in.block)
    THEN IF get_next_block_id(s) = message_in.block.block_id
         THEN dispatch(set_active_candidate_block(s, message_in.block), message_in)
         ELSE request_chain_update(s, <<message_in.node_id>>)
    ELSE IF message_in.block.block_id < Len(s.chain)
    THEN send_chain_update(s, message_in.node_id, message_in.block.block_id - 1)
    ELSE dispatch(add_candidate(s, Candidate(message_in.block)), message_in)

\* Node.receive
receive(s, message_in) ==
    IF message_in.message_type = TYPE_CHAIN_UPDATE_REQUEST
    THEN receive_chain_update_request(s, message_in)
    ELSE IF message_in.message_type = TYPE_CHAIN_UPDATE
    THEN receive_chain_update(s, message_in)
    ELSE IF ~validate_message(message_in) THEN s
    ELSE IF in_chain(s, message_in.block) THEN s
    ELSE IF found(s.candidates[message_in.block.block_id], message_in.block)
    THEN IF get_next_block_id(s) = message_in.block.block_id
         THEN dispatch(set_active_candidate_block(s, message_in.block), message_in)
         ELSE request_chain_update(s, <<message_in.node_id>>)
    ELSE IF get_next_block_id(s) < message_in.block.block_id
    THEN request_chain_update(s, <<message_in.node_id>>)
    ELSE IF message_in.block.block_id < Len(s.chain)
    THEN send_chain_update(s, message_in.node_id, message_in.block.block_id - 1)
    ELSE dispatch(add_candidate(s, Candidate(message_in.block)), message_in)

\* ------------------------------------------------------------------ Node: commit, blank block, timers
\* NodeCommit.gen_commit
gen_commit(s) ==
    IF s.node_id # get_next_block_node_id(s) THEN s
    ELSE LET block == Block(get_next_block_id(s), s.node_id, now)
         IN broadcast(add_candidate(s, Candidate(block)),
                      Message(s.node_id, TYPE_COMMIT, block, <<>>, {}, NoCandidates))

\* Faulty variant: the blank block timeout never fires.
try_approving_blank_block_never(s) == s

\* Faulty variant: the blank block is nominated without waiting for the timeout.
try_approving_blank_block_at_once(s) ==
    IF s.active_candidate # NoBlock THEN s
    ELSE send_approve_once(
             add_candidate([s EXCEPT !.sent = Append(@, <<BLANK_BLOCK, get_next_block_id(s),
                                                          Blank>>)],
                           Candidate(Block(get_next_block_id(s), Blank, now))))

\* NodeApprove.try_approving_blank_block
try_approving_blank_block(s) ==
    IF s.active_candidate # NoBlock THEN s
    ELSE IF s.time_forged + blank_block_timeout > now THEN s
    ELSE send_approve_once(
             add_candidate([s EXCEPT !.sent = Append(@, <<BLANK_BLOCK, get_next_block_id(s),
                                                          Blank>>)],
                           Candidate(Block(get_next_block_id(s), Blank, now))))

\* Faulty variant: the request goes out in every run, idle or not.
try_requesting_chain_update_at_once(s) == request_chain_update(s, <<>>)

\* NodeChainUpdate.try_requesting_chain_update
try_requesting_chain_update(s) ==
    IF last_activity_time(s) + ChainUpdateTimeout > now THEN s
    ELSE request_chain_update(s, <<>>)

\* ------------------------------------------------------------------ Node.run
\* NodeBlock.get_candidate raises NodeValueError.
get_candidate_raises(s) == s.candidates[get_next_block_id(s)] = {}

\* NodeBlock.get_candidate returns None: best_candidate raised ValueError, and
\* the handler builds a NodeValueError without raising it.
get_candidate_none(s) == best_candidate_raises(s.candidates[get_next_block_id(s)])

\* The try block of Node.run and its handler for NodeValueError.  With
\* active_candidate = None send_approve_once fails on
\* self.active_candidate.block: an AttributeError, which nothing handles.
try_steps(s) ==
    IF get_candidate_raises(s)
    THEN try_approving_blank_block(gen_commit(s))
    ELSE IF get_candidate_none(s)
    THEN [s EXCEPT !.active_candidate = NoBlock, !.error = TRUE]
    ELSE LET c == best_candidate(s.candidates[get_next_block_id(s)])
             s1 == [s EXCEPT !.active_candidate = c.block]
         IN try_forging_candidate_block(
                send_vote_status_update_once(
                    send_vote_once(
                        send_approve_status_update_once(
                            send_approve_once(s1)))))

\* The steps of Node.run after the message: the try block and the chain
\* update timer.
run_steps(s) ==
    LET s1 == try_steps(s)
    IN IF s1.error THEN s1 ELSE try_requesting_chain_update(s1)

\* Node.run(message)
run_message(s, message) == run_steps(receive(s, message))

\* Node.run()
run(s) == run_steps(s)

\* ------------------------------------------------------------------ Transport and driver
\* Transport.send for the sends of one run: a send whose index is in dropped
\* is lost (the random drop rule), the others join the pool behind the
\* envelopes already there: with equal delays time_deliver grows with the
\* time of the send.  What is sent to a frozen node is never pulled and is
\* left out of the pool.
RECURSIVE kept(_, _, _, _)
kept(from, out, i, dropped) ==
    IF i > Len(out) THEN <<>>
    ELSE (IF i \notin dropped /\ out[i].to \notin frozen
          THEN <<[from |-> from, to |-> out[i].to, message |-> out[i].message]>>
          ELSE <<>>)
         \o kept(from, out, i + 1, dropped)

send(pool_in, from, out, dropped) == pool_in \o kept(from, out, 1, dropped)

\* The environment can afford count more events.
Affordable(kind, count) ==
    events_left.total = Unlimited \/ (count <= events_left[kind] /\ count <= events_left.total)

Spend(kind, count) ==
    IF events_left.total = Unlimited THEN events_left
    ELSE [events_left EXCEPT ![kind] = @ - count, !.total = @ - count]

\* A budget of events: so many drops, late pairs and pauses, total in all.
Budget(drops, late, pauses, total) ==
    [drop |-> drops, late |-> late, pause |-> pauses, total |-> total]

\* The sets of sends the transport may drop.  random.randint(0, 100) < rate
\* never holds with a rate of 0 and always holds with a rate above 100; in
\* between any of the sends may be dropped.  lossy narrows the sends that the
\* drop hits in the run at hand.
DropChoices(out) ==
    LET hit == {i \in 1 .. Len(out) :
                   <<out[i].to, out[i].message.message_type>> \in lossy}
    IN IF drop_rate = 0 THEN {{}}
       ELSE IF drop_rate > 100 THEN {hit}
       ELSE {d \in SUBSET hit : Affordable("drop", Cardinality(d))}

\* The protocol messages whose broadcasts the history records.
Recorded == {TYPE_COMMIT, TYPE_APPROVE, TYPE_APPROVE_STATUS_UPDATE, TYPE_VOTE,
             TYPE_VOTE_STATUS_UPDATE}

Broadcasts(n, sent) ==
    {<<n, sent[i][1], sent[i][2], sent[i][3]>> : i \in {j \in DOMAIN sent : sent[j][1] \in Recorded}}

Repeated(n, sent) ==
    {<<n, sent[i][1], sent[i][2], sent[i][3]>> :
        i \in {j \in DOMAIN sent : sent[j][1] \in Recorded
                                   /\ \E k \in 1 .. j - 1 : sent[k] = sent[j]}}

\* The blank blocks one run created.
Fabrications(n, sent) ==
    {<<n, BLANK_BLOCK, sent[i][2], sent[i][3]>> :
        i \in {j \in DOMAIN sent : sent[j][1] = BLANK_BLOCK}}

\* The chain update requests among the sends of one run, to all or to one node.
Requests(n, out) ==
    {<<n, TYPE_CHAIN_UPDATE_REQUEST, out[i].message.block.block_id,
       out[i].message.block.node_id>> :
        i \in {j \in DOMAIN out : out[j].message.message_type = TYPE_CHAIN_UPDATE_REQUEST}}

\* The driver's exit test: more than half of the nodes hold generate_blocks blocks.
Done == 2 * Cardinality({n \in nodes : Len(chain[n]) >= generate_blocks}) > N

\* Between two iterations of the driver loop.
Boundary == nodes_to_run = {} /\ due = <<>>

\* The effect of one finished call of nodes[n].run on the node, the transport
\* and the histories other than probe.
Finish(n, s, dropped) ==
    /\ chain' = [chain EXCEPT ![n] = s.chain]
    /\ candidates' = [candidates EXCEPT ![n] = s.candidates]
    /\ active_candidate' = [active_candidate EXCEPT ![n] = s.active_candidate]
    /\ time_forged' = [time_forged EXCEPT ![n] = s.time_forged]
    /\ time_update_requested' = [time_update_requested EXCEPT ![n] = s.time_update_requested]
    /\ pool' = send(pool, n, s.out, dropped)
    /\ nodes_to_run' = nodes_to_run \ {n}
    /\ crashed' = s.error
    /\ events_left' = IF drop_rate > 100 THEN events_left
                      ELSE Spend("drop", Cardinality(dropped))
    /\ emitted' = emitted \cup Broadcasts(n, s.sent) \cup Requests(n, s.out)
                           \cup Fabrications(n, s.sent)
    /\ duplicated' = duplicated \cup (Broadcasts(n, s.sent) \cap emitted) \cup Repeated(n, s.sent)
    /\ UNCHANGED <<blank_block_timeout, drop_rate, delay_multiplier, frozen, lossy, slow, nodes,
                 generate_blocks>>

\* The envelopes of pool_in whose pair of nodes is (is not) in held.
RECURSIVE select(_, _, _)
select(pool_in, held, in) ==
    IF pool_in = <<>> THEN <<>>
    ELSE (IF (<<Head(pool_in).from, Head(pool_in).to>> \in held) = in
          THEN <<Head(pool_in)>> ELSE <<>>)
         \o select(Tail(pool_in), held, in)

Pairs(pool_in) == {<<pool_in[i].from, pool_in[i].to>> : i \in DOMAIN pool_in}

\* The start of a loop iteration: transport.receive() pulls the envelopes
\* that are due, every node is still to run.  The envelopes of the pairs in
\* held (the pairs with the longer delays) are not due yet.
receive_due ==
    /\ ~crashed /\ ~Done /\ Boundary
    /\ \E held \in SUBSET (Pairs(pool) \cap slow) :
          /\ delay_multiplier = 0 => held = {}
          /\ Affordable("late", Cardinality(held))
          /\ events_left' = Spend("late", Cardinality(held))
          /\ due' = select(pool, held, FALSE)
          /\ pool' = select(pool, held, TRUE)
    /\ nodes_to_run' = nodes \ frozen
    /\ UNCHANGED <<chain, candidates, active_candidate, time_forged, time_update_requested,
                   blank_block_timeout, drop_rate, delay_multiplier, frozen, lossy, slow, nodes,
                   generate_blocks, crashed, emitted, duplicated>>

Poll == receive_due /\ UNCHANGED probe

\* nodes[to].run(message) for the next due envelope.
run_due ==
    /\ ~crashed
    /\ due # <<>>
    /\ due' = Tail(due)
    /\ LET s == run_message(NodeState(Head(due).to), Head(due).message)
       IN \E dropped \in DropChoices(s.out) : Finish(Head(due).to, s, dropped)

Deliver == run_due /\ UNCHANGED probe

\* nodes[n].run() for a node that got no message in this iteration.
run_rest(n) ==
    /\ ~crashed
    /\ due = <<>>
    /\ n \in nodes_to_run
    /\ \A m \in nodes_to_run : n <= m
    /\ UNCHANGED due
    /\ LET s == run(NodeState(n))
       IN \E dropped \in DropChoices(s.out) : Finish(n, s, dropped)

Tick(n) == run_rest(n) /\ UNCHANGED probe

\* A time stamp moved age seconds into the past.
Older(time, age) == IF time > age THEN time - age ELSE 0

OlderBlock(block, age) == [block EXCEPT !.created = Older(@, age)]

OlderManager(manager, age) == {[c EXCEPT !.block = OlderBlock(@, age)] : c \in manager}

OlderMessage(message, age) ==
    [message EXCEPT !.block = OlderBlock(@, age),
                    !.chain = [i \in DOMAIN @ |-> OlderBlock(@[i], age)],
                    !.candidates = [@ EXCEPT !.manager = OlderManager(@, age)]]

OlderPool(pool_in, age) ==
    [i \in DOMAIN pool_in |-> [pool_in[i] EXCEPT !.message = OlderMessage(@, age)]]

\* Wall-clock time passes between two iterations: every time stamp moves age
\* seconds into the past.  The code compares time stamps with the clock
\* only through differences against the two timeouts, neither above MaxTime.
Advance(age) ==
    /\ ~crashed /\ ~Done /\ Boundary
    /\ Affordable("pause", 1)
    /\ events_left' = Spend("pause", 1)
    /\ chain' = [n \in Nodes |-> [i \in DOMAIN chain[n] |-> OlderBlock(chain[n][i], age)]]
    /\ candidates' = [n \in Nodes |->
                         [k \in Slots |-> OlderManager(candidates[n][k], age)]]
    /\ active_candidate' = [n \in Nodes |-> OlderBlock(active_candidate[n], age)]
    /\ time_forged' = [n \in Nodes |-> Older(time_forged[n], age)]
    /\ time_update_requested' = [n \in Nodes |-> Older(time_update_requested[n], age)]
    /\ pool' = OlderPool(pool, age)
    /\ UNCHANGED <<blank_block_timeout, drop_rate, delay_multiplier, frozen, lossy, slow, nodes,
                   generate_blocks, probe, due, nodes_to_run, crashed, emitted, duplicated>>

\* The state after the nodes and the transport are constructed (main.py:852-870).
InitNodes ==
    /\ chain = [n \in Nodes |-> <<>>]
    /\ candidates = [n \in Nodes |-> [k \in Slots |-> {}]]
    /\ active_candidate = [n \in Nodes |-> NoBlock]
    /\ time_forged = [n \in Nodes |-> now]
    /\ time_update_requested = [n \in Nodes |-> now]
    /\ pool = <<>>
    /\ due = <<>>
    /\ nodes_to_run = {}
    /\ crashed = FALSE
    /\ emitted = {}
    /\ duplicated = {}

MessageTypes == {TYPE_COMMIT, TYPE_APPROVE, TYPE_APPROVE_STATUS_UPDATE, TYPE_VOTE,
                 TYPE_VOTE_STATUS_UPDATE, TYPE_CHAIN_UPDATE_REQUEST, TYPE_CHAIN_UPDATE}

AnySend == Nodes \X MessageTypes

AnyPair == Nodes \X Nodes

\* A lossy transport, the default timeouts, every node running.
Init ==
    /\ InitNodes
    /\ blank_block_timeout = BlankBlockTimeout
    /\ drop_rate = 1
    /\ delay_multiplier = 1
    /\ frozen = {}
    /\ lossy = AnySend
    /\ slow = AnyPair
    /\ nodes = Nodes
    /\ generate_blocks = GenerateBlocks
    /\ probe = <<>>
    /\ events_left = Budget(MaxEvents, MaxEvents, MaxEvents, MaxEvents)

Next ==
    \/ Poll
    \/ Deliver
    \/ \E n \in nodes : Tick(n)
    \/ \E age \in 1 .. MaxTime : Advance(age)

Spec == Init /\ [][Next]_vars

\* The same with a transport that drops nothing.
InitNoLoss ==
    /\ InitNodes
    /\ blank_block_timeout = BlankBlockTimeout
    /\ drop_rate = 0
    /\ delay_multiplier = 1
    /\ frozen = {}
    /\ lossy = AnySend
    /\ slow = AnyPair
    /\ nodes = Nodes
    /\ generate_blocks = GenerateBlocks
    /\ probe = <<>>
    /\ events_left = Budget(MaxEvents, MaxEvents, MaxEvents, MaxEvents)

SpecNoLoss == InitNoLoss /\ [][Next]_vars

\* A run in which node 1 is starved of the approvals: every APPROVE and
\* APPROVE_STATUS_UPDATE sent to node 1 is dropped, and the envelopes from
\* node 0 to node 2 are the late ones.
InitStarved ==
    /\ InitNodes
    /\ blank_block_timeout = BlankBlockTimeout
    /\ drop_rate = 101
    /\ delay_multiplier = 1
    /\ frozen = {}
    /\ lossy = {1} \X {TYPE_APPROVE, TYPE_APPROVE_STATUS_UPDATE}
    /\ slow = {<<0, 2>>}
    /\ nodes = Nodes
    /\ generate_blocks = GenerateBlocks
    /\ probe = <<>>
    /\ events_left = Budget(0, StarvedLate, StarvedPauses, StarvedEvents)

SpecStarved == InitStarved /\ [][Next]_vars

\* A lossy transport, every node running, and either setting of the blank
\* block timeout: the default, or one that never elapses.
InitTimeouts ==
    /\ InitNodes
    /\ blank_block_timeout \in {BlankBlockTimeout, Infinity}
    /\ drop_rate = 1
    /\ delay_multiplier = 1
    /\ frozen = {}
    /\ lossy = AnySend
    /\ slow = AnyPair
    /\ nodes = Nodes
    /\ generate_blocks = GenerateBlocks
    /\ probe = <<>>
    /\ events_left = Budget(MaxEvents, MaxEvents, MaxEvents, MaxEvents)

SpecTimeouts == InitTimeouts /\ [][Next]_vars

\* The steps of the four actions, recognised by what only they change, and
\* the states in which they can be taken.
PollStep == Boundary /\ nodes_to_run' # {}

PollEnabled == ~crashed /\ ~Done /\ Boundary

DeliverStep == due # <<>> /\ due' = Tail(due)

DeliverEnabled == ~crashed /\ due # <<>>

TickStep == due = <<>> /\ nodes_to_run # {} /\ nodes_to_run' # nodes_to_run

TickEnabled == ~crashed /\ due = <<>> /\ nodes_to_run # {}

AdvanceStep == Boundary /\ nodes_to_run' = {} /\ time_forged' # time_forged

AdvanceEnabled ==
    /\ ~crashed /\ ~Done /\ Boundary /\ Affordable("pause", 1)
    /\ \E n \in Nodes : time_forged[n] > 0

\* The driver loop keeps iterating (weak fairness of Poll, Deliver and Tick),
\* and wall-clock time keeps passing (strong fairness of Advance).
Fairness ==
    /\ []<>(~PollEnabled) \/ []<><<PollStep>>_vars
    /\ []<>(~DeliverEnabled) \/ []<><<DeliverStep>>_vars
    /\ []<>(~TickEnabled) \/ []<><<TickStep>>_vars
    /\ <>[](~AdvanceEnabled) \/ []<><<AdvanceStep>>_vars

\* Scenario "three nodes, lossless": nothing is dropped, every envelope is due
\* at once, the blank block timeout never fires.
InitLossless ==
    /\ InitNodes
    /\ blank_block_timeout = Infinity
    /\ drop_rate = 0
    /\ delay_multiplier = 0
    /\ frozen = {}
    /\ lossy = AnySend
    /\ slow = AnyPair
    /\ nodes = Nodes
    /\ generate_blocks = GenerateBlocks
    /\ probe = <<>>
    /\ events_left = Budget(Unlimited, Unlimited, Unlimited, Unlimited)

SpecLossless == InitLossless /\ [][Next]_vars /\ Fairness

\* Scenario "proposer offline": nothing is dropped, every envelope is due at
\* once, node 1 is frozen.
InitOffline ==
    /\ InitNodes
    /\ blank_block_timeout = BlankBlockTimeout
    /\ drop_rate = 0
    /\ delay_multiplier = 0
    /\ frozen = {1}
    /\ lossy = AnySend
    /\ slow = AnyPair
    /\ nodes = Nodes
    /\ generate_blocks = GenerateBlocks
    /\ probe = <<>>
    /\ events_left = Budget(Unlimited, Unlimited, Unlimited, Unlimited)

\* The scenario is about slot 1: the blank timeout elapses while nodes 0 and 2
\* wait for the silent proposer, so time passes once both hold block 0.
AfterSlotZero == Len(chain[0]) >= 1 /\ Len(chain[2]) >= 1

NextOffline ==
    \/ Poll
    \/ Deliver
    \/ \E n \in nodes : Tick(n)
    \/ \E age \in 1 .. MaxTime : AfterSlotZero /\ Advance(age)

FairnessOffline ==
    /\ []<>(~PollEnabled) \/ []<><<PollStep>>_vars
    /\ []<>(~DeliverEnabled) \/ []<><<DeliverStep>>_vars
    /\ []<>(~TickEnabled) \/ []<><<TickStep>>_vars
    /\ <>[](~(AfterSlotZero /\ AdvanceEnabled)) \/ []<><<AdvanceStep>>_vars

SpecOffline == InitOffline /\ [][NextOffline]_vars /\ FairnessOffline

\* ------------------------------------------------------------------ late joiner
\* Scenario "late-joining catch-up": the node with the highest id starts with
\* an empty chain and has been idle for any time, the others hold the first
\* LateBlocks blocks from the start (their chain field as a started network
\* leaves it); nothing is dropped, every envelope is due
\* at once, the driver runs until a majority holds one more block or an
\* exception ends the run.
LateJoiner == 2

LateChain == [i \in 1 .. LateBlocks |-> Block(i - 1, (i - 1) % Cardinality(Nodes), 0)]

InitLate ==
    /\ chain = [n \in Nodes |-> IF n = LateJoiner THEN <<>> ELSE LateChain]
    /\ candidates = [n \in Nodes |-> [k \in Slots |-> {}]]
    /\ active_candidate = [n \in Nodes |-> NoBlock]
    /\ \E idle \in 0 .. MaxTime :
          /\ time_forged = [n \in Nodes |-> IF n = LateJoiner THEN now - idle ELSE now]
          /\ time_update_requested = time_forged
    /\ pool = <<>>
    /\ due = <<>>
    /\ nodes_to_run = {}
    /\ crashed = FALSE
    /\ emitted = {}
    /\ duplicated = {}
    /\ blank_block_timeout = BlankBlockTimeout
    /\ drop_rate = 0
    /\ delay_multiplier = 0
    /\ frozen = {}
    /\ lossy = AnySend
    /\ slow = AnyPair
    /\ nodes = Nodes
    /\ generate_blocks = LateBlocks + 1
    /\ probe = <<>>
    /\ events_left = Budget(Unlimited, Unlimited, Unlimited, Unlimited)

SpecLate == InitLate /\ [][Next]_vars /\ Fairness


\* ------------------------------------------------------------------ forged status update
\* Scenario "quorum resistance": nothing is dropped, every envelope is due at
\* once, the driver may be held up, and once in a run an
\* APPROVE_STATUS_UPDATE that no node sent joins the pool: it names a block
\* of the receiver's next slot and carries approves of at most half of the nodes.
MaxForgedPauses == 1

ForgedBlocks(to) ==
    {Block(Len(chain[to]), Len(chain[to]) % N, now), Block(Len(chain[to]), Blank, now)}

Inject(from, to, block, evidence) ==
    /\ ~crashed /\ ~Done /\ Boundary
    /\ probe = <<>>
    /\ from # to
    /\ ~MoreThanHalf(Cardinality(evidence))
    /\ LET message == Message(from, TYPE_APPROVE_STATUS_UPDATE, block, <<>>, evidence,
                              NoCandidates)
       IN /\ pool' = Append(pool, [from |-> from, to |-> to, message |-> message])
          /\ probe' = <<"forged", to, message>>
    /\ UNCHANGED <<chain, candidates, active_candidate, time_forged, time_update_requested,
                   blank_block_timeout, drop_rate, delay_multiplier, frozen, lossy, slow, nodes,
                   generate_blocks, due, nodes_to_run, events_left, crashed, emitted,
                   duplicated>>

InitForged ==
    /\ InitNodes
    /\ blank_block_timeout = BlankBlockTimeout
    /\ drop_rate = 0
    /\ delay_multiplier = 0
    /\ frozen = {}
    /\ lossy = AnySend
    /\ slow = AnyPair
    /\ nodes = Nodes
    /\ generate_blocks = GenerateBlocks
    /\ probe = <<>>
    /\ events_left = Budget(0, 0, MaxForgedPauses, MaxForgedPauses)

NextForged ==
    \/ Next
    \/ /\ probe = <<>>
       /\ \E from \in nodes, to \in nodes, evidence \in SUBSET nodes :
             \E block \in ForgedBlocks(to) : Inject(from, to, block, evidence)

SpecForged == InitForged /\ [][NextForged]_vars

\* ------------------------------------------------------------------ illegal block
\* Scenario "conflicting proposers": the lossless run, and once in it a
\* node sends a message of a protocol type that names a block of its own for
\* a slot that is not its to propose.  The status updates carry the approves or votes of every
\* node, so that nothing but the block is wrong with them.
IllegalBlocks ==
    {b \in {Block(block_id, node_id, now) : block_id \in 0 .. GenerateBlocks, node_id \in Nodes} :
        b.block_id % N # b.node_id}

EvidenceOf(message_type) ==
    IF message_type \in {TYPE_APPROVE_STATUS_UPDATE, TYPE_VOTE_STATUS_UPDATE} THEN nodes ELSE {}

InjectIllegal(from, to, message_type, block) ==
    /\ ~crashed /\ ~Done /\ Boundary
    /\ probe = <<>>
    /\ from # to
    /\ LET message == Message(from, message_type, block, <<>>, EvidenceOf(message_type),
                              NoCandidates)
       IN /\ pool' = Append(pool, [from |-> from, to |-> to, message |-> message])
          /\ probe' = <<"illegal", to, message>>
    /\ UNCHANGED <<chain, candidates, active_candidate, time_forged, time_update_requested,
                   blank_block_timeout, drop_rate, delay_multiplier, frozen, lossy, slow, nodes,
                   generate_blocks, due, nodes_to_run, events_left, crashed, emitted,
                   duplicated>>

NextIllegal ==
    \/ Next
    \/ /\ probe = <<>>
       /\ \E to \in nodes, message_type \in Recorded, block \in IllegalBlocks :
             InjectIllegal(block.node_id, to, message_type, block)

SpecIllegal == InitForged /\ [][NextIllegal]_vars

\* ------------------------------------------------------------------ single node
\* Scenario "single node": NODE_COUNT is one, or three for comparison;
\* nothing is dropped, every envelope is due at once, the driver may be held
\* up between the iterations.  With one node no envelope is ever sent
\* (broadcast skips the sender), so only the runs without a message occur.
InitSingle ==
    /\ InitNodes
    /\ blank_block_timeout = BlankBlockTimeout
    /\ drop_rate = 0
    /\ delay_multiplier = 0
    /\ frozen = {}
    /\ lossy = AnySend
    /\ slow = AnyPair
    /\ nodes \in {{0}, Nodes}
    /\ generate_blocks = GenerateBlocks
    /\ probe = <<>>
    /\ events_left = Budget(0, 0, MaxEvents, MaxEvents)

SpecSingle == InitSingle /\ [][Next]_vars

\* ------------------------------------------------------------------ quorum thresholds
\* The quorum predicates as functions of the node count and of the evidence
\* the active Candidate holds: a node of a network of one, two or three
\* nodes is handed a Candidate with any evidence and evaluates them, once.
NodeCounts == {0 .. k : k \in Nodes}

Measured(approves, approve_status_updates, votes, vote_status_updates) ==
    LET block == Block(0, 0, now)
        c == [Candidate(block) EXCEPT !.messages_approve = approves,
                                      !.approve_status_updates = approve_status_updates,
                                      !.messages_vote = votes,
                                      !.vote_status_updates = vote_status_updates]
    IN [NodeState(0) EXCEPT !.candidates[0] = {c}, !.active_candidate = block]

Measure(approves, approve_status_updates, votes, vote_status_updates) ==
    LET s == Measured(approves, approve_status_updates, votes, vote_status_updates)
    IN /\ probe = <<>>
       /\ probe' = <<"quorum", ActiveCandidate(s),
                     [enough_approves |-> enough_approves(s),
                      enough_approves_in |-> enough_approves_in(approves),
                      enough_approve_status_updates |-> enough_approve_status_updates(s),
                      enough_votes |-> enough_votes(s),
                      enough_vote_status_updates |-> enough_vote_status_updates(s),
                      Node_enough_approves |-> Node_enough_approves(s),
                      Node_enough_approves_in |-> Node_enough_approves_in(approves)]>>
       /\ UNCHANGED <<chain, candidates, active_candidate, time_forged, time_update_requested,
                      blank_block_timeout, drop_rate, delay_multiplier, frozen, lossy, slow,
                      nodes, generate_blocks, pool, due, nodes_to_run, events_left, crashed,
                      emitted, duplicated>>

InitQuorum ==
    /\ InitNodes
    /\ blank_block_timeout = BlankBlockTimeout
    /\ drop_rate = 0
    /\ delay_multiplier = 0
    /\ frozen = {}
    /\ lossy = AnySend
    /\ slow = AnyPair
    /\ nodes \in NodeCounts
    /\ generate_blocks = GenerateBlocks
    /\ probe = <<>>
    /\ events_left = Budget(0, 0, 0, 0)

NextQuorum ==
    /\ probe = <<>>
    /\ \E approves \in SUBSET nodes, approve_status_updates \in SUBSET nodes,
          votes \in SUBSET nodes, vote_status_updates \in SUBSET nodes :
           Measure(approves, approve_status_updates, votes, vote_status_updates)

SpecQuorum == InitQuorum /\ [][NextQuorum]_vars

\* ------------------------------------------------------------------ proposer behind
\* Scenario "proposer behind": a vote status update to node 1 may be lost and
\* the envelopes from node 2 may be late, so that nodes 0 and 2 forge slot 0
\* before node 1 does, their blank block timeout for slot 1 (node 1's to
\* propose) may fire before node 1 has entered that slot, and the approves of
\* the blank block may reach node 0 in any order.
BehindEvents == 1

BehindLate == 3

InitBehind ==
    /\ InitNodes
    /\ blank_block_timeout = BlankBlockTimeout
    /\ drop_rate = 1
    /\ delay_multiplier = 1
    /\ frozen = {}
    /\ lossy = {<<1, TYPE_VOTE_STATUS_UPDATE>>}
    /\ slow = {<<2, 0>>, <<2, 1>>}
    /\ nodes = Nodes
    /\ generate_blocks = GenerateBlocks
    /\ probe = <<>>
    /\ events_left = Budget(BehindEvents, BehindLate, BehindEvents,
                             BehindLate + 2 * BehindEvents)

SpecBehind == InitBehind /\ [][Next]_vars

\* ------------------------------------------------------------------ candidate ordering
\* The comparison operators of Candidate as functions of two Candidates of
\* one block: each evidence set is empty or holds one of two senders, so
\* that counts differ, tie with the same evidence and tie with different
\* evidence.
EvidenceChoices == {{}, {0}, {1}}

Compared ==
    {[Candidate(Block(0, 0, now)) EXCEPT !.messages_approve = approves,
                                         !.approve_status_updates = approve_status_updates,
                                         !.messages_vote = votes,
                                         !.vote_status_updates = vote_status_updates,
                                         !.forged = forged] :
        approves \in EvidenceChoices, approve_status_updates \in EvidenceChoices,
        votes \in EvidenceChoices, vote_status_updates \in EvidenceChoices,
        forged \in BOOLEAN}

Compare(a, b) ==
    /\ probe = <<>>
    /\ probe' = <<"order", a, b,
                  [eq |-> CandidateEq(a, b), gt |-> CandidateGt(a, b),
                   lt |-> CandidateLt(a, b), gt_reversed |-> CandidateGt(b, a),
                   lt_reversed |-> CandidateLt(b, a)]>>
    /\ UNCHANGED <<chain, candidates, active_candidate, time_forged, time_update_requested,
                   blank_block_timeout, drop_rate, delay_multiplier, frozen, lossy, slow,
                   nodes, generate_blocks, pool, due, nodes_to_run, events_left, crashed,
                   emitted, duplicated>>

InitOrdering ==
    /\ InitNodes
    /\ blank_block_timeout = BlankBlockTimeout
    /\ drop_rate = 0
    /\ delay_multiplier = 0
    /\ frozen = {}
    /\ lossy = AnySend
    /\ slow = AnyPair
    /\ nodes = Nodes
    /\ generate_blocks = GenerateBlocks
    /\ probe = <<>>
    /\ events_left = Budget(0, 0, 0, 0)

\* The merge of receive_chain_update for a manager holding local alone and a
\* received Candidate of the same block.
Merge(local, received) ==
    /\ probe = <<>>
    /\ probe' = <<"merge", local, received, merge_candidate({local}, received)>>
    /\ UNCHANGED <<chain, candidates, active_candidate, time_forged, time_update_requested,
                   blank_block_timeout, drop_rate, delay_multiplier, frozen, lossy, slow,
                   nodes, generate_blocks, pool, due, nodes_to_run, events_left, crashed,
                   emitted, duplicated>>

NextOrdering ==
    /\ probe = <<>>
    /\ \E a \in Compared, b \in Compared : Compare(a, b) \/ Merge(a, b)

SpecOrdering == InitOrdering /\ [][NextOrdering]_vars

\* ------------------------------------------------------------------ transport pool
\* The pool of the Transport by itself: envelopes with their delivery times,
\* the clock, and the calls of send and receive in any order.  probe holds
\*   pool      self.pool, a list of [id, time_deliver]
\*   time      time.time()
\*   sends     the number of envelopes sent so far (the id of the next one)
\*   calls     the number of calls of receive so far
\*   received  the list the last call of receive returned
MaxSends == 4

MaxDelay == 2

MaxClock == 3

\* sorted(pool, key=time_deliver, reverse=True): a stable sort, so that
\* envelopes with the same key keep their order.
RECURSIVE sorted_reverse(_)
sorted_reverse(list) ==
    IF list = <<>> THEN <<>>
    ELSE LET rest == sorted_reverse(SubSeq(list, 1, Len(list) - 1))
             last == list[Len(list)]
             ahead == {i \in DOMAIN rest : rest[i].time_deliver >= last.time_deliver}
             k == Cardinality(ahead)
         IN SubSeq(rest, 1, k) \o <<last>> \o SubSeq(rest, k + 1, Len(rest))

\* Faulty variant: the envelope is appended and the pool is not sorted.
pool_set_unsorted(pool_in, message_wrapper) == Append(pool_in, message_wrapper)

\* Transport._pool_set
pool_set(pool_in, message_wrapper) == sorted_reverse(Append(pool_in, message_wrapper))

\* Transport.send for an envelope that is not dropped; delay is connection_delay.
Transport_send(delay) ==
    /\ probe.sends < MaxSends
    /\ probe' = [probe EXCEPT
                    !.pool = pool_set(@, [id |-> probe.sends,
                                          time_deliver |-> probe.time + delay]),
                    !.sends = @ + 1]

\* The loop of Transport.receive: pop the last envelope while it is due.
RECURSIVE pop_due(_, _, _)
pop_due(pool_in, time_now, messages_to_deliver) ==
    IF pool_in = <<>> THEN [pool |-> pool_in, received |-> messages_to_deliver]
    ELSE IF pool_in[Len(pool_in)].time_deliver <= time_now
    THEN pop_due(SubSeq(pool_in, 1, Len(pool_in) - 1), time_now,
                 Append(messages_to_deliver, pool_in[Len(pool_in)]))
    ELSE [pool |-> pool_in, received |-> messages_to_deliver]

\* Transport.receive
Transport_receive ==
    /\ probe.calls < MaxSends
    /\ LET result == pop_due(probe.pool, probe.time, <<>>)
       IN probe' = [probe EXCEPT !.pool = result.pool, !.received = result.received,
                                 !.calls = @ + 1]

\* The clock moves on.
Clock(passed) ==
    /\ probe.time + passed <= MaxClock
    /\ probe' = [probe EXCEPT !.time = @ + passed]

InitTransport ==
    /\ InitNodes
    /\ blank_block_timeout = BlankBlockTimeout
    /\ drop_rate = 0
    /\ delay_multiplier = 1
    /\ frozen = {}
    /\ lossy = AnySend
    /\ slow = AnyPair
    /\ nodes = Nodes
    /\ generate_blocks = GenerateBlocks
    /\ probe = [pool |-> <<>>, time |-> 0, sends |-> 0, calls |-> 0, received |-> <<>>]
    /\ events_left = Budget(0, 0, 0, 0)

NextTransport ==
    /\ \/ \E delay \in 0 .. MaxDelay : Transport_send(delay)
       \/ Transport_receive
       \/ \E passed \in 1 .. MaxClock : Clock(passed)
    /\ UNCHANGED <<chain, candidates, active_candidate, time_forged, time_update_requested,
                   blank_block_timeout, drop_rate, delay_multiplier, frozen, lossy, slow,
                   nodes, generate_blocks, pool, due, nodes_to_run, events_left, crashed,
                   emitted, duplicated>>

SpecTransport == InitTransport /\ [][NextTransport]_vars

\* ------------------------------------------------------------------ initial chain
\* The constructor handed an initial chain (node_base.py:72-75): the chain
\* argument is None or a list of at most MaxInitialChain blocks with block
\* ids from -1 and any proposer.  The outcome is the acceptance of the chain
\* or the exception that leaves the constructor.
MaxInitialChain == 2

InitialBlocks ==
    {Block(block_id, node_id, now) : block_id \in -1 .. MaxInitialChain,
                                     node_id \in {Blank} \cup Nodes}

RECURSIVE ChainsUpTo(_)
ChainsUpTo(k) ==
    IF k = 0 THEN {<<>>}
    ELSE ChainsUpTo(k - 1)
         \cup {Append(c, b) : c \in {x \in ChainsUpTo(k - 1) : Len(x) = k - 1},
                              b \in InitialBlocks}

InitialChains == ChainsUpTo(MaxInitialChain)

\* Block.__getattr__("prev_block_id"): an optional id, {} for None.
prev_block_id(block) == IF block.block_id >= 0 THEN {block.block_id - 1} ELSE {}

\* The loop of validate_chain from the block at index i on.  The constructor
\* calls validate_chain before it sets self.nodes, so validate_block ends in
\* an AttributeError when it gets to len(self.nodes): for every block that is
\* not blank.
RECURSIVE validate_chain_from(_, _, _)
validate_chain_from(chain_in, i, last_block_id) ==
    IF i > Len(chain_in) THEN "accepted"
    ELSE IF prev_block_id(chain_in[i]) # last_block_id THEN "ValueError"
    ELSE IF chain_in[i].node_id # Blank THEN "AttributeError"
    ELSE validate_chain_from(chain_in, i + 1, prev_block_id(chain_in[i]))

\* NodeValidator.validate_chain as NodeBase.__init__ calls it, and the raise
\* of the constructor.  With chain = None the method reads self.chain, which
\* the constructor has not set yet.
validate_chain(given, chain_in) ==
    IF ~given THEN "AttributeError" ELSE validate_chain_from(chain_in, 1, {})

Construct(given, chain_in) ==
    /\ probe = <<>>
    /\ probe' = <<"chain", given, chain_in, validate_chain(given, chain_in)>>
    /\ UNCHANGED <<chain, candidates, active_candidate, time_forged, time_update_requested,
                   blank_block_timeout, drop_rate, delay_multiplier, frozen, lossy, slow,
                   nodes, generate_blocks, pool, due, nodes_to_run, events_left, crashed,
                   emitted, duplicated>>

NextConstruct ==
    /\ probe = <<>>
    /\ \/ \E chain_in \in InitialChains : Construct(TRUE, chain_in)
       \/ Construct(FALSE, <<>>)

\* The other fields of the state play no part: they start as in InitOrdering.
SpecConstruct == InitOrdering /\ [][NextConstruct]_vars

\* ------------------------------------------------------------------ node cut off
\* Scenario "node cut off": every protocol message sent to node 2 is dropped,
\* chain updates and their requests reach it; every envelope is due at once,
\* and the driver may be held up CutOffPauses times.  Nodes 0 and 1 are a
\* majority and forge without node 2, which catches up by CHAIN_UPDATE only.
CutOffPauses == 1

InitCutOff ==
    /\ InitNodes
    /\ blank_block_timeout = BlankBlockTimeout
    /\ drop_rate = 101
    /\ delay_multiplier = 0
    /\ frozen = {}
    /\ lossy = {2} \X Recorded
    /\ slow = AnyPair
    /\ nodes = Nodes
    /\ generate_blocks = GenerateBlocks
    /\ probe = <<>>
    /\ events_left = Budget(0, 0, CutOffPauses, CutOffPauses)

SpecCutOff == InitCutOff /\ [][Next]_vars

\* ------------------------------------------------------------------ driver loop
\* The while loop of main with its bookkeeping.  probe holds cycles, the
\* place of the driver in the loop (at), and for the current iteration the
\* number of envelopes pulled for each node (got) and the number of calls of
\* its run (runs).  MAX_LOOP_ITERATIONS is 10**7 in main.py; the loop is
\* followed here with a small value.
MAX_LOOP_ITERATIONS == 12

\* cycles += 1, nodes_to_run, transport.receive()
LoopTop ==
    /\ probe.at = "top"
    /\ receive_due
    /\ probe' = [at |-> "body",
                 cycles |-> probe.cycles + 1,
                 got |-> [n \in Nodes |-> Cardinality({i \in DOMAIN due' : due'[i].to = n})],
                 runs |-> [n \in Nodes |-> 0]]

\* nodes[to_node_id].run(message)
LoopDeliver ==
    /\ probe.at = "body"
    /\ run_due
    /\ probe' = [probe EXCEPT !.runs[Head(due).to] = @ + 1]

\* nodes[i].run()
LoopRun(n) ==
    /\ probe.at = "body"
    /\ run_rest(n)
    /\ probe' = [probe EXCEPT !.runs[n] = @ + 1]

\* The two exit tests at the end of an iteration.
LoopExitTest ==
    /\ probe.at = "body"
    /\ ~crashed
    /\ Boundary
    /\ probe' = [probe EXCEPT !.at = IF Done THEN "done"
                                     ELSE IF probe.cycles > MAX_LOOP_ITERATIONS
                                          THEN "exhausted"
                                          ELSE "top"]
    /\ UNCHANGED <<chain, candidates, active_candidate, time_forged, time_update_requested,
                   blank_block_timeout, drop_rate, delay_multiplier, frozen, lossy, slow, nodes,
                   generate_blocks, pool, due, nodes_to_run, events_left, crashed, emitted,
                   duplicated>>

InitDriver ==
    /\ InitNodes
    /\ blank_block_timeout = BlankBlockTimeout
    /\ drop_rate = 1
    /\ delay_multiplier = 1
    /\ frozen = {}
    /\ lossy = AnySend
    /\ slow = AnyPair
    /\ nodes = Nodes
    /\ generate_blocks = GenerateBlocks
    /\ probe = [at |-> "top", cycles |-> 0, got |-> [n \in Nodes |-> 0],
                runs |-> [n \in Nodes |-> 0]]
    /\ events_left = Budget(MaxEvents, MaxEvents, MaxEvents, MaxEvents)

NextDriver ==
    \/ LoopTop
    \/ LoopDeliver
    \/ \E n \in nodes : LoopRun(n)
    \/ LoopExitTest
    \/ \E age \in 1 .. MaxTime : Advance(age)

SpecDriver == InitDriver /\ [][NextDriver]_vars

\* ------------------------------------------------------------------ faulty sender
\* Scenario "faulty sender": the lossless run, and once in it an envelope no
\* node built joins the pool.  It is a status update for the proposed or the
\* blank block of the receiver's next slot, with the senders and the block of
\* its evidence chosen freely, or a CHAIN_UPDATE whose chain holds valid and
\* invalid blocks around the receiver's next slot, with and without a gap.
FaultyMessages(from, to) ==
    LET k == Len(chain[to])
        good(j) == Block(j, j % N, now)
        bad(j) == Block(j, (j + 1) % N, now)
        blocks == {good(k), Block(k, Blank, now)}
        named(b) == [block_id |-> b.block_id, node_id |-> b.node_id]
    IN {[Message(from, TYPE_APPROVE_STATUS_UPDATE, block, <<>>, evidence, NoCandidates)
            EXCEPT !.messages_chain_block = named(evidence_block)] :
           block \in blocks, evidence \in {{from}, nodes}, evidence_block \in blocks}
       \cup {Message(from, TYPE_VOTE_STATUS_UPDATE, block, <<>>, evidence, NoCandidates) :
                block \in blocks, evidence \in {{from}, nodes}}
       \cup {Message(from, TYPE_CHAIN_UPDATE, NoBlock, chain_out, {}, NoCandidates) :
                chain_out \in {c \in {<<good(k)>>, <<bad(k)>>, <<good(k + 1)>>,
                                      <<good(k), good(k + 1)>>, <<bad(k), good(k + 1)>>,
                                      <<good(k), bad(k + 1)>>,
                                      <<good(k + 1), good(k)>>,
                                      <<Block(k - 1, Blank, now), good(k)>>} :
                                  k + Len(c) <= GenerateBlocks}}

InjectFaulty(from, to, message) ==
    /\ ~crashed /\ ~Done /\ Boundary
    /\ probe = <<>>
    /\ from # to
    /\ pool' = Append(pool, [from |-> from, to |-> to, message |-> message])
    /\ probe' = <<"faulty", to, message>>
    /\ UNCHANGED <<chain, candidates, active_candidate, time_forged, time_update_requested,
                   blank_block_timeout, drop_rate, delay_multiplier, frozen, lossy, slow, nodes,
                   generate_blocks, due, nodes_to_run, events_left, crashed, emitted,
                   duplicated>>

NextFaulty ==
    \/ Next
    \/ /\ probe = <<>>
       /\ \E from \in nodes, to \in nodes :
             \E message \in FaultyMessages(from, to) : InjectFaulty(from, to, message)

SpecFaulty == InitForged /\ [][NextFaulty]_vars

\* ------------------------------------------------------------------ properties
\* The Candidates of node n for the block at index i of its chain.
CandidatesOf(n, i) == {c \in candidates[n][i - 1] : BlockEq(c.block, chain[n][i])}

\* Node n took the block at index i of its chain from a CHAIN_UPDATE: it
\* holds the block without having forged its Candidate.
Adopted(n, i) == i \in DOMAIN chain[n] /\ \A c \in CandidatesOf(n, i) : ~c.forged

\* C1: when no message is dropped, any two nodes hold equal blocks (same
\* block_id and node_id) at every slot both have committed.
AgreementWithoutLoss ==
    \A a \in Nodes, b \in Nodes :
        \A i \in DOMAIN chain[a] \cap DOMAIN chain[b] : BlockEq(chain[a][i], chain[b][i])

\* Two nodes hold two blocks each, after envelopes were late or time passed.
AgreementWithoutLossWitness ==
    /\ drop_rate = 0 /\ events_left.total < MaxEvents
    /\ \E a \in Nodes, b \in Nodes : a # b /\ Len(chain[a]) >= 2 /\ Len(chain[b]) >= 2

\* C2: with drops, delays and CHAIN_UPDATE adoption, a block a node commits
\* in a step equals the block any node had committed at that slot before.
AgreementUnderLoss ==
    [][\A a \in Nodes, b \in Nodes :
          \A i \in DOMAIN chain[a] \cap DOMAIN chain'[b] :
              BlockEq(chain[a][i], chain'[b][i])]_vars

\* After a drop, a delay or a pause, a node holds a block it adopted from a
\* CHAIN_UPDATE and another node holds the block it forged at that slot.
AgreementUnderLossWitness ==
    /\ events_left.total < MaxEvents
    /\ \E a \in Nodes, b \in Nodes, i \in 1 .. GenerateBlocks :
          a # b /\ Adopted(a, i) /\ i \in DOMAIN chain[b] /\ ~Adopted(b, i)

\* C3: in every chain the block at index i has block_id i (indices from 0).
ChainDensity ==
    \A n \in Nodes : \A i \in DOMAIN chain[n] : chain[n][i].block_id = i - 1

\* A chain whose first block was inserted from a CHAIN_UPDATE and whose
\* second block was forged.
ChainDensityWitness ==
    \E n \in Nodes : Len(chain[n]) >= 2 /\ Adopted(n, 1) /\ ~Adopted(n, 2)

\* C4: every committed block that is not blank was proposed by the node
\* block_id mod (node count).
ProposerRule ==
    \A n \in Nodes : \A i \in DOMAIN chain[n] :
        chain[n][i].node_id # Blank
            => chain[n][i].block_id % Cardinality(Nodes) = chain[n][i].node_id

\* A chain holds the block of node 1 at slot 1.
ProposerRuleWitness ==
    \E n \in Nodes : Len(chain[n]) >= 2 /\ chain[n][2].node_id = 1

\* C5: a forged Candidate holds vote_status_updates and messages_vote of more
\* than half of the nodes, and its block is the node's committed block of
\* its slot.
QuorumImplication ==
    \A n \in Nodes, k \in Slots : \A c \in candidates[n][k] :
        c.forged => /\ 2 * Cardinality(c.vote_status_updates) > Cardinality(Nodes)
                    /\ 2 * Cardinality(c.messages_vote) > Cardinality(Nodes)
                    /\ k + 1 \in DOMAIN chain[n]
                    /\ BlockEq(chain[n][k + 1], c.block)

\* A node has forged its Candidates of slot 0 and slot 1.
QuorumImplicationWitness ==
    \E n \in Nodes : /\ \E c \in candidates[n][0] : c.forged
                     /\ \E c \in candidates[n][1] : c.forged

\* C6: no node broadcasts APPROVE, APPROVE_STATUS_UPDATE, VOTE or
\* VOTE_STATUS_UPDATE twice for one block.
DuplicateSuppression == \A d \in duplicated : d[2] = TYPE_COMMIT

\* Node 2 has broadcast the APPROVE_STATUS_UPDATE of block 0 twice: after its
\* first broadcast a CHAIN_UPDATE replaced its Candidate by the Candidate of
\* node 1, whose actions_taken holds no approve status update.
DuplicateSuppressionWitness == <<2, TYPE_APPROVE_STATUS_UPDATE, 0, 0>> \in duplicated

\* C7: in every step, every Candidate that is not forged keeps the elements
\* of actions_taken and of its four evidence key sets.
CandidateMonotonicity ==
    [][\A n \in Nodes, k \in Slots : \A c \in candidates[n][k] :
          ~c.forged =>
              \E d \in candidates'[n][k] :
                  /\ BlockEq(d.block, c.block)
                  /\ c.actions_taken \subseteq d.actions_taken
                  /\ c.messages_approve \subseteq d.messages_approve
                  /\ c.approve_status_updates \subseteq d.approve_status_updates
                  /\ c.messages_vote \subseteq d.messages_vote
                  /\ c.vote_status_updates \subseteq d.vote_status_updates]_vars

\* C8: a COMMIT is broadcast only by the proposer of its slot, for its own
\* block, and when first broadcast the slot is the sender's next slot.
OnlyProposerCommits ==
    [][\A e \in emitted' :
          e[2] = TYPE_COMMIT =>
              /\ e[1] = e[3] % Cardinality(Nodes)
              /\ e[4] = e[1]
              /\ e \notin emitted => e[3] = Len(chain'[e[1]])]_vars

\* Node 1 has broadcast the COMMIT of slot 1.
OnlyProposerCommitsWitness == <<1, TYPE_COMMIT, 1, 1>> \in emitted

\* Every node holds GenerateBlocks blocks, slot i proposed by node i mod 3.
AllCommitted ==
    \A n \in Nodes :
        /\ Len(chain[n]) = GenerateBlocks
        /\ \A i \in DOMAIN chain[n] : chain[n][i] .node_id = (i - 1) % 3

NoBlankCommitted ==
    \A n \in Nodes : \A i \in DOMAIN chain[n] : chain[n][i].node_id # Blank

BlankForged(n) ==
    /\ Len(chain[n]) >= 2
    /\ chain[n][2].node_id = Blank
    /\ \E c \in candidates[n][1] : c.forged /\ c.block.node_id = Blank

CaughtUp ==
    /\ Len(chain[LateJoiner]) >= LateBlocks
    /\ \A i \in 1 .. LateBlocks : BlockEq(chain[LateJoiner][i], LateChain[i])

ProgressDespiteLoss == ~(crashed /\ ~Done)

\* The envelope the driver delivers next is an APPROVE_STATUS_UPDATE for the
\* receiver's next slot whose evidence is no quorum.
ForgedDue ==
    /\ due # <<>>
    /\ Head(due).message.message_type = TYPE_APPROVE_STATUS_UPDATE
    /\ ~MoreThanHalf(Cardinality(Head(due).message.messages_chain))
    /\ Head(due).message.block.block_id = Len(chain[Head(due).to])

\* C13: the delivery of an APPROVE_STATUS_UPDATE for the next slot whose
\* evidence is no quorum does not add the sender to approve_status_updates,
\* merges none of the evidence into messages_approve, and makes the receiver
\* broadcast no VOTE it would not have broadcast without the message.
QuorumResistance ==
    [][(ForgedDue /\ due' = Tail(due)) =>
          LET to == Head(due).to
              message == Head(due).message
              slot == message.block.block_id
              before == {c \in candidates[to][slot] : BlockEq(c.block, message.block)}
          IN /\ \A d \in candidates'[to][slot] :
                   BlockEq(d.block, message.block) =>
                      /\ message.node_id \in d.approve_status_updates
                            => \E c \in before : message.node_id \in c.approve_status_updates
                      /\ \A k \in d.messages_approve \ {to} :
                            \E c \in before : k \in c.messages_approve
             /\ \A e \in emitted' \ emitted :
                   (e[1] = to /\ e[2] = TYPE_VOTE) =>
                      \E i \in DOMAIN run(NodeState(to)).sent :
                          run(NodeState(to)).sent[i][1] = TYPE_VOTE]_vars

\* The forged APPROVE_STATUS_UPDATE was delivered to a node whose Candidate
\* of that block was one status update short of the vote.
QuorumResistanceWitness ==
    /\ probe # <<>> /\ probe[1] = "forged"
    /\ \A i \in DOMAIN pool : pool[i].message # probe[3]
    /\ \A i \in DOMAIN due : due[i].message # probe[3]
    /\ \E c \in candidates[probe[2]][probe[3].block.block_id] :
          /\ BlockEq(c.block, probe[3].block)
          /\ probe[3].node_id \notin c.approve_status_updates
          /\ 2 * (Cardinality(c.approve_status_updates) + 1) > Cardinality(Nodes)
          /\ ACTION_VOTE \notin c.actions_taken

\* The envelope the driver delivers next is not a chain update and names a
\* block whose proposer is neither null nor block_id mod N.
IllegalDue ==
    /\ due # <<>>
    /\ Head(due).message.message_type \in Recorded
    /\ Head(due).message.block.node_id # Blank
    /\ Head(due).message.block.block_id % N # Head(due).message.block.node_id

\* C14: the run that is handed a protocol message with an illegal block
\* leaves the receiver's chain, candidates and active_candidate as the run
\* without a message leaves them and sends what that run sends, and no chain
\* ever holds a block whose proposer is neither null nor block_id mod N.
IllegalBlockRejection ==
    /\ [][(IllegalDue /\ due' = Tail(due)) =>
             LET to == Head(due).to
                 s == run(NodeState(to))
             IN /\ chain'[to] = s.chain
                /\ candidates'[to] = s.candidates
                /\ active_candidate'[to] = s.active_candidate
                /\ pool' = send(pool, to, s.out, {})]_vars
    /\ [](\A n \in Nodes : \A i \in DOMAIN chain[n] :
             chain[n][i].node_id = Blank \/ (i - 1) % N = chain[n][i].node_id)

\* The illegal message was delivered, to a node that was in its slot and had
\* no Candidate of that slot yet or had one of the legal block.
IllegalBlockRejectionWitness ==
    /\ probe # <<>> /\ probe[1] = "illegal"
    /\ \A i \in DOMAIN pool : pool[i].message # probe[3]
    /\ \A i \in DOMAIN due : due[i].message # probe[3]
    /\ probe[3].block.block_id = Len(chain[probe[2]])
    /\ probe[3].message_type = TYPE_COMMIT
    /\ \A c \in candidates[probe[2]][probe[3].block.block_id] : ~BlockEq(c.block, probe[3].block)

\* C15: with one registered node and nothing dropped every run of the node
\* appends one block to its chain, so that the chain is k blocks long after
\* k runs.
SingleNodeTick ==
    [][(nodes = {0} /\ TickStep) => Len(chain'[0]) = Len(chain[0]) + 1]_vars

\* C16: for every node count and every evidence, each quorum predicate is
\* true exactly when twice the count of its evidence exceeds the node count,
\* and enough_approves gives the same answer for an evidence map handed in as
\* for the same evidence in the active Candidate.
QuorumThresholds ==
    (probe # <<>> /\ probe[1] = "quorum") =>
        LET c == probe[2]
            r == probe[3]
        IN /\ r.enough_approves <=> 2 * Cardinality(c.messages_approve) > N
           /\ r.enough_approves_in <=> r.enough_approves
           /\ r.enough_approve_status_updates
                 <=> 2 * Cardinality(c.approve_status_updates) > N
           /\ r.enough_votes <=> 2 * Cardinality(c.messages_vote) > N
           /\ r.enough_vote_status_updates <=> 2 * Cardinality(c.vote_status_updates) > N
           /\ r.Node_enough_approves <=> 2 * Cardinality(c.messages_approve) > N
           /\ r.Node_enough_approves_in <=> r.Node_enough_approves

\* The blank Candidates node n holds for slot k.
BlankCandidates(cands, n, k) == {c \in cands[n][k] : c.block.node_id = Blank}

\* The envelope the driver delivers next is an APPROVE of a blank block for
\* the receiver's next slot, and the receiver and the sender have each
\* created a blank block for that slot.
BlankApproveDue ==
    /\ due # <<>>
    /\ Head(due).message.message_type = TYPE_APPROVE
    /\ Head(due).message.block.node_id = Blank
    /\ Head(due).message.block.block_id = Len(chain[Head(due).to])
    /\ BlankCandidates(candidates, Head(due).to, Len(chain[Head(due).to])) # {}
    /\ <<Head(due).to, BLANK_BLOCK, Len(chain[Head(due).to]), Blank>> \in emitted
    /\ <<Head(due).message.node_id, BLANK_BLOCK, Len(chain[Head(due).to]), Blank>> \in emitted

\* The receiver of the next envelope has broadcast its approve status update
\* for its next slot.
StatusUpdateSent ==
    check_action(candidates[Head(due).to][Len(chain[Head(due).to])],
                 ACTION_APPROVE_STATUS_UPDATE)

\* The receiver of the delivered blank approve holds one blank Candidate for
\* the slot, with the sender among its approves.
BlankMerged ==
    LET to == Head(due).to
        slot == Head(due).message.block.block_id
    IN /\ Cardinality(BlankCandidates(candidates', to, slot)) = 1
       /\ \A c \in BlankCandidates(candidates', to, slot) :
             Head(due).message.node_id \in c.messages_approve

\* C17 as stated: a node that fabricated a blank block for its next slot and
\* receives another node's approve of a blank block for that slot holds one
\* blank Candidate for the slot, with that approve in messages_approve.
BlankMergingAlways == [][(BlankApproveDue /\ due' = Tail(due)) => BlankMerged]_vars

\* C17: the same, for a receiver that has not yet broadcast its approve
\* status update for the slot; one that has still holds one blank Candidate.
BlankMerging ==
    [][(BlankApproveDue /\ due' = Tail(due)) =>
          /\ ~StatusUpdateSent => BlankMerged
          /\ Cardinality(BlankCandidates(candidates', Head(due).to,
                                         Head(due).message.block.block_id)) = 1]_vars

\* Two nodes created a blank block for the same slot each, and one of them,
\* which has had no approve status update of another node, holds one blank
\* Candidate for the slot with the other's approve in it.
BlankMergingWitness ==
    \E a \in Nodes, b \in Nodes, k \in Slots :
        /\ a # b
        /\ <<a, BLANK_BLOCK, k, Blank>> \in emitted
        /\ <<b, BLANK_BLOCK, k, Blank>> \in emitted
        /\ Cardinality(BlankCandidates(candidates, a, k)) = 1
        /\ \E c \in BlankCandidates(candidates, a, k) :
              b \in c.messages_approve /\ c.approve_status_updates \subseteq {a}

\* C18: a node whose manager for its next slot holds Candidates of two
\* different blocks goes on running, with a maximum of them under the
\* ordering of Candidate.__gt__ as its active_candidate.
CompetingCandidates ==
    \A n \in Nodes :
        LET manager == candidates[n][Len(chain[n])]
        IN Cardinality(manager) >= 2 =>
              /\ ~crashed
              /\ \E c \in manager : /\ BlockEq(c.block, active_candidate[n])
                                    /\ \A d \in manager : ~CandidateGt(d, c)

\* The tuple the ordering of Candidates is stated on.
Rank(c) ==
    <<IF c.forged THEN 1 ELSE 0, Cardinality(c.vote_status_updates),
      Cardinality(c.messages_vote), Cardinality(c.approve_status_updates),
      Cardinality(c.messages_approve)>>

LexGreater(x, y) == \E i \in DOMAIN x : x[i] > y[i] /\ \A j \in 1 .. i - 1 : x[j] = y[j]

\* C19: for two Candidates a, b of one block, a > b exactly when the tuple
\* of a is lexicographically greater, a < b exactly when b > a, and with
\* equal tuples neither a < b nor b < a.
StrictOrdering ==
    (probe # <<>> /\ probe[1] = "order") =>
        LET a == probe[2]
            b == probe[3]
            r == probe[4]
        IN /\ r.gt <=> LexGreater(Rank(a), Rank(b))
           /\ r.lt <=> r.gt_reversed
           /\ Rank(a) = Rank(b) => ~r.lt /\ ~r.lt_reversed
           /\ ~(r.lt /\ r.lt_reversed)

\* The envelopes of a list.
Envelopes(list) == {list[i] : i \in DOMAIN list}

\* C20: a call of Transport.receive at time t returns the envelopes of the
\* pool that are due at t, each once and in non-decreasing order of
\* time_deliver, and leaves in the pool the others, each once and all due
\* later than t; so no envelope is delivered after one that was in the pool
\* with it and was due later.
DeliveryOrder ==
    [][probe'.calls # probe.calls =>
          LET before == probe.pool
              after == probe'.pool
              returned == probe'.received
          IN /\ Envelopes(returned) = {w \in Envelopes(before) : w.time_deliver <= probe.time}
             /\ Cardinality(Envelopes(returned)) = Len(returned)
             /\ \A i \in DOMAIN returned : \A j \in DOMAIN returned :
                   i < j => returned[i].time_deliver <= returned[j].time_deliver
             /\ Envelopes(after) = Envelopes(before) \ Envelopes(returned)
             /\ Cardinality(Envelopes(after)) = Len(after)
             /\ \A w \in Envelopes(after) : w.time_deliver > probe.time
             /\ \A w \in Envelopes(after) : \A v \in Envelopes(returned) :
                   w.time_deliver > v.time_deliver]_vars

\* A call of receive returned two envelopes in the reverse of the order they
\* were sent in, the later one being due earlier, and left one in the pool.
DeliveryOrderWitness ==
    /\ Len(probe.received) >= 2
    /\ probe.received[1].id > probe.received[2].id
    /\ probe.received[1].time_deliver < probe.received[2].time_deliver
    /\ probe.pool # <<>>

\* The block ids of a chain are 0, 1, 2, ... in order.
Dense(chain_in) == \A i \in DOMAIN chain_in : chain_in[i].block_id = i - 1

\* Every block of a chain that is not blank names the proposer of its slot.
ProposedInTurn(chain_in) ==
    \A i \in DOMAIN chain_in :
        chain_in[i].node_id # Blank
            => chain_in[i].block_id % Cardinality(Nodes) = chain_in[i].node_id

\* C22: the constructor accepts an initial chain exactly when the chain is
\* dense from slot 0 and every block that is not blank names the proposer of
\* its slot, and refuses every other chain with a ValueError.
InitialChainValidation ==
    (probe # <<>> /\ probe[1] = "chain" /\ probe[2]) =>
        /\ probe[4] = "accepted" <=> (Dense(probe[3]) /\ ProposedInTurn(probe[3]))
        /\ probe[4] # "accepted" => probe[4] = "ValueError"

\* C23: no node broadcasts APPROVE for two different blocks of one slot, and
\* no node broadcasts VOTE for two different blocks of one slot.
OneApproveAndVotePerSlot ==
    \A e \in emitted, f \in emitted :
        (e[2] \in {TYPE_APPROVE, TYPE_VOTE} /\ e[1] = f[1] /\ e[2] = f[2] /\ e[3] = f[3])
            => e[4] = f[4]

\* A node that has broadcast its APPROVE for a slot holds two Candidates for it.
OneApproveAndVotePerSlotWitness ==
    \E e \in emitted :
        e[2] = TYPE_APPROVE /\ Cardinality(candidates[e[1]][e[3]]) >= 2

\* The evidence a broadcast of one of the three gated types rests on: the
\* evidence set of the Candidate of the broadcast's block that the gate reads.
GateEvidence(s, broadcast_out) ==
    LET c == find(s.candidates[broadcast_out[2]],
                  Block(broadcast_out[2], broadcast_out[3], now))
    IN CASE broadcast_out[1] = TYPE_APPROVE_STATUS_UPDATE -> c.messages_approve
         [] broadcast_out[1] = TYPE_VOTE -> c.approve_status_updates
         [] broadcast_out[1] = TYPE_VOTE_STATUS_UPDATE -> c.messages_vote

\* Every gated broadcast of the finished run s rests on evidence of more than
\* half of the nodes.
Gated(s) ==
    \A i \in DOMAIN s.sent :
        s.sent[i][1] \in {TYPE_APPROVE_STATUS_UPDATE, TYPE_VOTE, TYPE_VOTE_STATUS_UPDATE}
            => 2 * Cardinality(GateEvidence(s, s.sent[i])) > N

\* C24: whichever run the driver takes next, without a message or with the
\* next due envelope, an APPROVE_STATUS_UPDATE it broadcasts rests on approves
\* of more than half of the nodes, a VOTE on approve status updates of more
\* than half, a VOTE_STATUS_UPDATE on votes of more than half.
QuorumGatedEmissions ==
    /\ \A n \in nodes : Gated(run(NodeState(n)))
    /\ due # <<>> => Gated(run_message(NodeState(Head(due).to), Head(due).message))

\* The run that takes the next due envelope broadcasts an approve status
\* update and a vote, after a vote status update has been broadcast.
QuorumGatedEmissionsWitness ==
    /\ due # <<>>
    /\ \E e \in emitted : e[2] = TYPE_VOTE_STATUS_UPDATE
    /\ LET s == run_message(NodeState(Head(due).to), Head(due).message)
       IN \A type \in {TYPE_APPROVE_STATUS_UPDATE, TYPE_VOTE} :
              \E i \in DOMAIN s.sent : s.sent[i][1] = type

\* The sets of actions that are a prefix of the sequence APPROVE,
\* APPROVE_STATUS_UPDATE, VOTE, VOTE_STATUS_UPDATE.
PhasePrefixes ==
    {{},
     {ACTION_APPROVE},
     {ACTION_APPROVE, ACTION_APPROVE_STATUS_UPDATE},
     {ACTION_APPROVE, ACTION_APPROVE_STATUS_UPDATE, ACTION_VOTE},
     {ACTION_APPROVE, ACTION_APPROVE_STATUS_UPDATE, ACTION_VOTE, ACTION_VOTE_STATUS_UPDATE}}

\* C25: in every reachable state the actions_taken of every Candidate of
\* every node is a prefix of APPROVE, APPROVE_STATUS_UPDATE, VOTE,
\* VOTE_STATUS_UPDATE, also when messages are lost.
PhaseOrder ==
    \A n \in Nodes, k \in Slots : \A c \in candidates[n][k] : c.actions_taken \in PhasePrefixes

\* The message type a node broadcasts when it takes an action.
TypeOfAction(action) ==
    CASE action = ACTION_APPROVE -> TYPE_APPROVE
      [] action = ACTION_APPROVE_STATUS_UPDATE -> TYPE_APPROVE_STATUS_UPDATE
      [] action = ACTION_VOTE -> TYPE_VOTE
      [] action = ACTION_VOTE_STATUS_UPDATE -> TYPE_VOTE_STATUS_UPDATE

\* C26: an action is in the actions_taken of a Candidate in a node's store
\* only if that node has broadcast the message of the action for the
\* Candidate's block, also for Candidates taken from a CHAIN_UPDATE.
OwnActionsOnly ==
    \A n \in Nodes, k \in Slots : \A c \in candidates[n][k] : \A action \in c.actions_taken :
        <<n, TypeOfAction(action), c.block.block_id, c.block.node_id>> \in emitted

\* The blank blocks created in the step at hand: <<node, slot>>.
BlankCreated == {<<e[1], e[3]>> : e \in {x \in emitted' \ emitted : x[2] = BLANK_BLOCK}}

\* The conditions of a blank block other than the time: the slot is the
\* node's next slot, the node held no Candidate for it and is not its proposer.
BlankConditions(n, slot) ==
    /\ slot = Len(chain'[n])
    /\ candidates[n][slot] = {}
    /\ n # slot % N
    /\ blank_block_timeout # Infinity

\* The statement with "more than blank_block_timeout has elapsed".
BlankOnlyAfterMoreThanTimeout ==
    [][\A f \in BlankCreated :
          /\ BlankConditions(f[1], f[2])
          /\ now - time_forged[f[1]] > blank_block_timeout]_vars

\* C27: a node creates a blank block for a slot only in a run in which the
\* slot is its next slot, it held no Candidate for the slot, it is not the
\* proposer of the slot, and blank_block_timeout or more has elapsed since
\* its time_forged; with a timeout that never elapses no blank block is created.
BlankOnlyAfterTimeout ==
    [][\A f \in BlankCreated :
          /\ BlankConditions(f[1], f[2])
          /\ now - time_forged[f[1]] >= blank_block_timeout]_vars

\* A node has created a blank block for slot 1, and the timeout is the default.
BlankOnlyAfterTimeoutWitness ==
    /\ blank_block_timeout = BlankBlockTimeout
    /\ \E e \in emitted : e[2] = BLANK_BLOCK /\ e[3] = 1

\* Node n is stuck: it is not the proposer of its next slot, the manager of
\* that slot is empty, and more than blank_block_timeout has elapsed since
\* its time_forged.
Stuck(n) ==
    /\ n # Len(chain[n]) % N
    /\ candidates[n][Len(chain[n])] = {}
    /\ now - time_forged[n] > blank_block_timeout

\* The run creates a blank block for slot and broadcasts its APPROVE.
ElectsBlank(s, slot) ==
    /\ \E i \in DOMAIN s.sent : s.sent[i] = <<BLANK_BLOCK, slot, Blank>>
    /\ \E i \in DOMAIN s.sent : s.sent[i] = <<TYPE_APPROVE, slot, Blank>>

\* C28: in every reachable state the run without a message of a stuck node
\* creates a blank block for the node's next slot and broadcasts APPROVE for
\* it, also when the node has just advanced its chain through a CHAIN_UPDATE.
BlankElectionEnabled ==
    \A n \in nodes : Stuck(n) => ElectsBlank(run(NodeState(n)), Len(chain[n]))


\* C29: active_candidate targets the next slot: in every state of every node,
\* an active Candidate is for the slot equal to the chain length and is one of
\* the Candidates in the manager of that slot.
ActiveCandidateInNextSlot ==
    \A n \in nodes :
        active_candidate[n] # NoBlock =>
            /\ active_candidate[n].block_id = Len(chain[n])
            /\ \E c \in candidates[n][Len(chain[n])] : c.block = active_candidate[n]


\* C30: no-candidate handling: in every state, the next run of every node,
\* without a message or with the next due message addressed to it, ends
\* without an unhandled error, whether the manager of its next slot is empty or
\* holds several Candidates; a run that reaches the emission steps has a
\* non-null active_candidate.
RunNeverFails ==
    /\ \A n \in nodes : ~run(NodeState(n)).error
    /\ due # <<>> => ~run_message(NodeState(due[1].to), due[1].message).error


\* The driver loop has ended.
LoopEnded == crashed \/ probe.at \in {"done", "exhausted"}

\* Every node was run as often as the iteration requires.
AllRun == \A n \in nodes : probe.runs[n] = IF probe.got[n] > 0 THEN probe.got[n] ELSE 1

\* C21: driver loop: in each iteration every node's run is called once per due
\* envelope addressed to it, or once without a message if it had none (each
\* call is one step, finished before the next), and the loop ends exactly when
\* more than half of the nodes hold generate_blocks blocks or cycles exceeds
\* MAX_LOOP_ITERATIONS.
DriverLoop ==
    /\ (probe.cycles > 0 /\ (LoopEnded \/ probe.at = "top")) => AllRun
    /\ LoopEnded => (Done \/ probe.cycles > MAX_LOOP_ITERATIONS)
    /\ (probe.at = "top" /\ probe.cycles > 0) => ~(Done \/ probe.cycles > MAX_LOOP_ITERATIONS)


\* C31: at most one Candidate per slot and proposer: no manager of any node
\* holds two Candidates of equal blocks (same block_id and node_id, the blank
\* one included), and every Candidate stored under slot k is of a block with
\* block_id k.
OneCandidatePerBlock ==
    \A n \in Nodes : \A k \in Slots :
        \A c \in candidates[n][k] :
            /\ c.block.block_id = k
            /\ \A d \in candidates[n][k] : BlockEq(c.block, d.block) => c = d

\* A node stores a Candidate it took from a CHAIN_UPDATE: the approve action
\* is taken and the node's own approve is not among the approves.
OneCandidatePerBlockWitness ==
    \E n \in Nodes : \E k \in Slots : \E c \in candidates[n][k] :
        n \notin c.messages_approve /\ ACTION_APPROVE \in c.actions_taken


\* C32: the merge of a CHAIN_UPDATE keeps the better Candidate: a local
\* Candidate is replaced by a received Candidate of the same block only if the
\* received one is strictly greater under the ordering, and when the two tie
\* on (forged, vote status updates, votes, approve status updates, approves)
\* the local Candidate is kept unchanged.
MergeKeepsBetter ==
    (probe # <<>> /\ probe[1] = "merge") =>
        LET local == probe[2]
            received == probe[3]
            manager == probe[4]
        IN /\ manager # {local} => LexGreater(Rank(received), Rank(local))
           /\ Rank(received) = Rank(local) => manager = {local}


\* The envelopes on their way that carry a chain update request.
RequestsPending ==
    {e \in Envelopes(pool) \cup Envelopes(due) :
        e.message.message_type = TYPE_CHAIN_UPDATE_REQUEST}

\* The blocks of chain_in above slot t, in order.
RECURSIVE Above(_, _)
Above(chain_in, t) ==
    IF chain_in = <<>> THEN <<>>
    ELSE (IF Head(chain_in).block_id > t THEN <<Head(chain_in)>> ELSE <<>>)
         \o Above(Tail(chain_in), t)

\* C33: a node that receives a CHAIN_UPDATE_REQUEST carrying tip block id t
\* (t = -1 without a block) sends the requester exactly one CHAIN_UPDATE whose
\* chain is its blocks with block_id > t in ascending order and whose
\* candidates are its manager of its own next slot if it has one; its own
\* state is unchanged.
ChainUpdateResponse ==
    \A e \in RequestsPending :
        LET s == NodeState(e.to)
            r == receive(s, e.message)
            t == IF e.message.block = NoBlock THEN -1 ELSE e.message.block.block_id
        IN /\ Len(r.out) = 1
           /\ r.out[1].to = e.from
           /\ r.out[1].message.message_type = TYPE_CHAIN_UPDATE
           /\ r.out[1].message.chain = Above(s.chain, t)
           /\ r.out[1].message.candidates =
                 (IF s.candidates[Len(s.chain)] # {}
                  THEN [slot |-> Len(s.chain), manager |-> s.candidates[Len(s.chain)]]
                  ELSE NoCandidates)
           /\ [r EXCEPT !.out = <<>>] = s

\* A request with a tip is on its way to a node that holds blocks above the
\* tip and Candidates of its next slot.
ChainUpdateResponseWitness ==
    \E e \in RequestsPending :
        /\ e.message.block # NoBlock
        /\ Len(chain[e.to]) > e.message.block.block_id + 1
        /\ candidates[e.to][Len(chain[e.to])] # {}


\* The envelope the driver delivers next is a CHAIN_UPDATE.
UpdateDue == due # <<>> /\ Head(due).message.message_type = TYPE_CHAIN_UPDATE

\* C34: chains only grow by gap-free appends: every step leaves the chain of
\* every node a prefix of its new chain, and receive_chain_update appends a
\* received block only if it is valid and its block_id is the next slot at
\* that moment, up to the first slot whose block is missing or invalid.
ChainGrowth ==
    [][/\ \A n \in Nodes :
             /\ Len(chain[n]) <= Len(chain'[n])
             /\ \A i \in DOMAIN chain[n] : BlockEq(chain[n][i], chain'[n][i])
       /\ UpdateDue =>
             LET s == NodeState(Head(due).to)
                 received == Envelopes(Head(due).message.chain)
                 after == receive(s, Head(due).message).chain
             IN /\ SubSeq(after, 1, Len(s.chain)) = s.chain
                /\ \A i \in Len(s.chain) + 1 .. Len(after) :
                      /\ after[i] \in received
                      /\ after[i].block_id = i - 1
                      /\ validate_block(after[i])
                /\ \A b \in received : b.block_id = Len(after) => ~validate_block(b)]_vars

\* A node took the first block of a faulty update and left the invalid
\* second one out.
ChainGrowthWitness ==
    /\ probe # <<>> /\ probe[1] = "faulty"
    /\ probe[3].message_type = TYPE_CHAIN_UPDATE
    /\ Len(probe[3].chain) = 2
    /\ \A i \in DOMAIN pool : pool[i].message # probe[3]
    /\ \A i \in DOMAIN due : due[i].message # probe[3]
    /\ \E i \in DOMAIN chain[probe[2]] : BlockEq(chain[probe[2]][i], probe[3].chain[1])
    /\ \A i \in DOMAIN chain[probe[2]] : ~BlockEq(chain[probe[2]][i], probe[3].chain[2])
    /\ ~validate_block(probe[3].chain[2])


\* The envelope the driver delivers next is a valid protocol message for a
\* slot the receiver has committed.
StaleDue ==
    /\ due # <<>>
    /\ Head(due).message.message_type \in Recorded
    /\ validate_message(Head(due).message)
    /\ Head(due).message.block.block_id < Len(chain[Head(due).to])

\* C35: a node that receives a valid protocol message for a slot below its
\* chain length, whether or not its chain holds that block and whether or not
\* it holds a Candidate of it, sends the sender one CHAIN_UPDATE with the
\* blocks from that slot on, sends no CHAIN_UPDATE_REQUEST, and leaves its
\* chain and Candidates as they are.
StaleAnswered ==
    StaleDue =>
        LET s == NodeState(Head(due).to)
            message == Head(due).message
            r == receive(s, message)
        IN /\ Len(r.out) = 1
           /\ r.out[1].to = message.node_id
           /\ r.out[1].message.message_type = TYPE_CHAIN_UPDATE
           /\ \A i \in message.block.block_id + 1 .. Len(s.chain) :
                 \E j \in DOMAIN r.out[1].message.chain : r.out[1].message.chain[j] = s.chain[i]
           /\ r.chain = s.chain
           /\ r.candidates = s.candidates


\* The envelope the driver delivers next is a valid protocol message for a
\* slot beyond the receiver's next slot.
FutureDue ==
    /\ due # <<>>
    /\ Head(due).message.message_type \in Recorded
    /\ validate_message(Head(due).message)
    /\ Head(due).message.block.block_id > Len(chain[Head(due).to])

\* C36: a node that receives a valid protocol message for a slot beyond its
\* next slot sends a CHAIN_UPDATE_REQUEST to the sender only, creates no
\* Candidate, emits no APPROVE for that slot and leaves chain and
\* active_candidate as they are; no node stores a Candidate for a slot beyond
\* its next slot.
FutureNotActedOn ==
    /\ \A n \in Nodes : \A k \in Slots : k > Len(chain[n]) => candidates[n][k] = {}
    /\ FutureDue =>
          LET s == NodeState(Head(due).to)
              message == Head(due).message
              r == receive(s, message)
              whole == run_message(s, message)
          IN /\ Len(r.out) = 1
             /\ r.out[1].to = message.node_id
             /\ r.out[1].message.message_type = TYPE_CHAIN_UPDATE_REQUEST
             /\ r.candidates = s.candidates
             /\ r.chain = s.chain
             /\ r.active_candidate = s.active_candidate
             /\ whole.candidates[message.block.block_id] = {}
             /\ \A i \in DOMAIN whole.sent :
                   ~(whole.sent[i][1] = TYPE_APPROVE /\ whole.sent[i][2] = message.block.block_id)

\* A message for a future slot is due at a node that is at work on a
\* Candidate of its own next slot.
FutureNotActedOnWitness ==
    FutureDue /\ active_candidate[Head(due).to] # NoBlock


\* The envelope the driver delivers next is an APPROVE_STATUS_UPDATE for the
\* receiver's next slot.
StatusUpdateDue(message_type) ==
    /\ due # <<>>
    /\ Head(due).message.message_type = message_type
    /\ validate_message(Head(due).message)
    /\ Head(due).message.block.block_id = Len(chain[Head(due).to])

\* The sender of message is in the status updates (field 1: approve, 2: vote)
\* of a Candidate of the block of message in state s.
Counted(s, message, field) ==
    \E c \in s.candidates[message.block.block_id] :
        /\ BlockEq(c.block, message.block)
        /\ message.node_id \in (IF field = 1 THEN c.approve_status_updates
                                ELSE c.vote_status_updates)

\* C37: an APPROVE_STATUS_UPDATE is accepted (its sender joins
\* approve_status_updates) only if its evidence holds the approves of more
\* than half of the nodes and those approves name the block of the message.
EvidenceForOneBlock ==
    StatusUpdateDue(TYPE_APPROVE_STATUS_UPDATE) =>
        LET s == NodeState(Head(due).to)
            message == Head(due).message
            r == receive(s, message)
        IN (Counted(r, message, 1) /\ ~Counted(s, message, 1)) =>
              /\ MoreThanHalf(Cardinality(message.messages_chain))
              /\ message.messages_chain_block.block_id = message.block.block_id
              /\ message.messages_chain_block.node_id = message.block.node_id


\* C38: a VOTE_STATUS_UPDATE whose evidence holds the votes of no more than
\* half of the nodes is discarded: its sender does not join
\* vote_status_updates and its evidence is not merged into messages_vote.
VoteEvidenceRequired ==
    (/\ StatusUpdateDue(TYPE_VOTE_STATUS_UPDATE)
     /\ ~MoreThanHalf(Cardinality(Head(due).message.messages_chain))) =>
        LET s == NodeState(Head(due).to)
            message == Head(due).message
            r == receive(s, message)
        IN /\ Counted(r, message, 2) => Counted(s, message, 2)
           /\ \A c \in r.candidates[message.block.block_id] :
                 BlockEq(c.block, message.block) =>
                    \A k \in c.messages_vote :
                        \E d \in s.candidates[message.block.block_id] :
                            BlockEq(d.block, message.block) /\ k \in d.messages_vote


\* The envelope the driver delivers next is an APPROVE_STATUS_UPDATE for the
\* receiver's next slot that names another block than the receiver's active
\* Candidate of that slot.
ConflictDue ==
    /\ StatusUpdateDue(TYPE_APPROVE_STATUS_UPDATE)
    /\ active_candidate[Head(due).to] # NoBlock
    /\ active_candidate[Head(due).to].block_id = Len(chain[Head(due).to])
    /\ ~BlockEq(active_candidate[Head(due).to], Head(due).message.block)

\* C39: a node whose active Candidate of its next slot is of block B discards
\* an APPROVE_STATUS_UPDATE for another block of that slot: no Candidate
\* records evidence from it or its sender, and the active Candidate stays the
\* one of B.
ConflictDiscarded ==
    ConflictDue =>
        LET s == NodeState(Head(due).to)
            r == receive(s, Head(due).message)
        IN /\ r.candidates = s.candidates
           /\ r.active_candidate = s.active_candidate


\* The node states with which the driver's next call of Node.run enters the
\* steps after the message: that of the receiver of the envelope due next
\* once it has received it, or that of the lowest node still to be run.
RunsAtHand ==
    IF crashed THEN {}
    ELSE IF due # <<>> THEN {receive(NodeState(Head(due).to), Head(due).message)}
    ELSE {NodeState(n) : n \in {m \in nodes_to_run : \A k \in nodes_to_run : m <= k}}

\* The run that starts its steps in state s0 ends them with the broadcast of
\* a CHAIN_UPDATE_REQUEST.
TimerRequest(s0) ==
    /\ ~try_steps(s0).error
    /\ Len(run_steps(s0).sent) = Len(try_steps(s0).sent) + 1
    /\ run_steps(s0).sent[Len(run_steps(s0).sent)][1] = TYPE_CHAIN_UPDATE_REQUEST

\* The seconds since the latest of the last forge, the last chain update
\* request and the creation of the active Candidate's block of state s.
Idle(s) ==
    LET forged == now - s.time_forged
        requested == now - s.time_update_requested
        created == IF s.active_candidate = NoBlock THEN now
                   ELSE now - s.active_candidate.created
    IN CHOOSE t \in {forged, requested, created} :
           /\ t <= forged /\ t <= requested /\ t <= created

\* The last committed block of state s, or none.
LastCommitted(s) == IF s.chain = <<>> THEN NoBlock ELSE s.chain[Len(s.chain)]

\* The timer's request of the run from s0: one envelope to every other node,
\* in the order of the broadcast, each carrying the last committed block and
\* nothing else; the request timer is restarted, so that the same node asks
\* no second time at once.
RequestIssued(s0) ==
    LET s1 == try_steps(s0)
        r == run_steps(s0)
    IN /\ Len(r.out) = Len(s1.out) + N - 1
       /\ \A i \in 1 .. N - 1 :
             /\ r.out[Len(s1.out) + i].to = Others(s0.node_id)[i]
             /\ r.out[Len(s1.out) + i].message.node_id = s0.node_id
             /\ r.out[Len(s1.out) + i].message.message_type = TYPE_CHAIN_UPDATE_REQUEST
             /\ r.out[Len(s1.out) + i].message.block = LastCommitted(s1)
             /\ r.out[Len(s1.out) + i].message.chain = <<>>
       /\ r.time_update_requested = now
       /\ Idle(r) = 0
       /\ ~TimerRequest([r EXCEPT !.out = <<>>, !.sent = <<>>])

\* C40 as stated: a run broadcasts the timer's CHAIN_UPDATE_REQUEST only if
\* more than chain_update_timeout has elapsed since the latest of the node's
\* last forge, its last chain update request and the creation of its active
\* Candidate's block.  Read while the driver was held up at most once, when
\* no time stamp has yet been cut off at the clock's range.
IdleTimerAfterMoreThanTimeout ==
    events_left.pause >= MaxEvents - 1 =>
        \A s0 \in RunsAtHand :
            TimerRequest(s0) => Idle(try_steps(s0)) > ChainUpdateTimeout

\* C40: a run broadcasts the timer's CHAIN_UPDATE_REQUEST only if
\* chain_update_timeout or more has elapsed since the latest of the node's
\* last forge, its last chain update request and the creation of its active
\* Candidate's block; the request carries the node's last committed block
\* (none with an empty chain), and it restarts the timer, so that the node
\* sends no further such request until the timeout has elapsed again.
IdleTimerRequests ==
    \A s0 \in RunsAtHand :
        /\ TimerRequest(s0) =>
              /\ Idle(try_steps(s0)) >= ChainUpdateTimeout
              /\ RequestIssued(s0)
        /\ Idle(try_steps(s0)) < ChainUpdateTimeout => ~TimerRequest(s0)

\* The run at hand broadcasts the timer's request of a node with a committed
\* block, which has sent a request before.
IdleTimerRequestsWitness ==
    \E s0 \in RunsAtHand :
        /\ TimerRequest(s0)
        /\ s0.chain # <<>>
        /\ \E e \in emitted : e[1] = s0.node_id /\ e[2] = TYPE_CHAIN_UPDATE_REQUEST

====
